---- MODULE Spec2Model ----
(***************************************************************************)
(* Two-tier TTL cache over a property graph: an authoritative (long-term)  *)
(* store and a working-set (short-term) store.  The module models the      *)
(* Cypher statements of the promotion, fetch, eviction and long-term       *)
(* commit scripts on an explicit property-graph state.                     *)
(***************************************************************************)
EXTENDS Integers, Sequences, FiniteSets, TLC

(***************************************************************************)
(* Time.  The wall clock advances in steps of TickMs; TTL_MS is the        *)
(* one-hour TTL of cache_cypher_query.py.                                   *)
(***************************************************************************)
TickMs == 30 * 60 * 1000
TTL_MS == 60 * 60 * 1000
DEFAULT_PROMOTION_TTL_MS == 24 * 60 * 60 * 1000
MaxTicks == 4
MaxCommitTicks == 3

(***************************************************************************)
(* Property maps.  A node or relationship carries a map from property      *)
(* names to values; an unset property is a name outside the map's domain   *)
(* (Cypher null).                                                          *)
(***************************************************************************)
NoProps == [k \in {} |-> 0]

HasProp(x, k) == k \in DOMAIN x.props

SetProps(old, new) == new @@ old

RemoveProp(old, k) == [x \in (DOMAIN old) \ {k} |-> old[x]]

(***************************************************************************)
(* Graph store: nodes and relationships with store-internal identities.    *)
(***************************************************************************)
EmptyStore == [nodes |-> {}, rels |-> {}]

\* the identity the store gives a new element: unique in the store, and the
\* same for the same element whatever was created before it
FreshId(S, tag) ==
    <<tag, CHOOSE c \in 1..(Cardinality(S) + 1) :
             /\ <<tag, c>> \notin {x.id : x \in S}
             /\ \A j \in 1..(c - 1) : <<tag, j>> \in {x.id : x \in S}>>

NodesBy(st, label, key, val) ==
    {n \in st.nodes : n.label = label /\ HasProp(n, key) /\ n.props[key] = val}

NodeById(st, i) == CHOOSE n \in st.nodes : n.id = i

\* MERGE (n:label {key: val}) ON CREATE SET onCreate SET onSet
MergeNode(st, label, key, val, onCreate, onSet) ==
    LET matched == NodesBy(st, label, key, val) IN
    IF matched = {}
    THEN [st EXCEPT !.nodes = @ \cup
            {[id |-> FreshId(st.nodes, <<label, val>>), label |-> label,
              props |-> SetProps(SetProps((key :> val), onCreate), onSet)]}]
    ELSE [st EXCEPT !.nodes =
            {IF n \in matched THEN [n EXCEPT !.props = SetProps(@, onSet)] ELSE n
             : n \in st.nodes}]

RelsBetween(st, type, s, t) ==
    {r \in st.rels : r.type = type /\ r.src = s /\ r.dst = t}

\* for one bound (s, t): MERGE (s)-[r:type]->(t) ON CREATE SET onCreate SET onSet
MergeRelOne(st, type, s, t, onCreate, onSet) ==
    LET matched == RelsBetween(st, type, s, t) IN
    IF matched = {}
    THEN [st EXCEPT !.rels = @ \cup
            {[id |-> FreshId(st.rels, <<type, s, t>>), type |-> type, src |-> s, dst |-> t,
              props |-> SetProps(onCreate, onSet)]}]
    ELSE [st EXCEPT !.rels =
            {IF r \in matched THEN [r EXCEPT !.props = SetProps(@, onSet)] ELSE r
             : r \in st.rels}]

RECURSIVE MergeRelPairs(_, _, _, _, _)
\* MATCH binds a set of (s, t) rows; the MERGE runs once per row
MergeRelPairs(st, type, pairs, onCreate, onSet) ==
    IF pairs = {} THEN st
    ELSE LET pr == CHOOSE p \in pairs : TRUE IN
         MergeRelPairs(MergeRelOne(st, type, pr[1], pr[2], onCreate, onSet),
                       type, pairs \ {pr}, onCreate, onSet)

Ids(S) == {x.id : x \in S}

\* the null binding of an OPTIONAL MATCH
NullId == <<"null", 0>>

(***************************************************************************)
(* Bulk ingest (ingest.py) builds the authoritative store.  The uuid4()    *)
(* draws are part of the input: every call site gets its own fresh value.  *)
(***************************************************************************)
ALLOWED_LABELS ==
    {"PERSON", "ORG", "PRODUCT", "GPE", "EVENT", "WORK_OF_ART", "NORP", "LOC"}

\* str.lower().strip() on the surface forms of the corpus
Lower(s) ==
    CASE s = "Vodafone" -> "vodafone"
      [] s = "Ernie Wise" -> "ernie wise"
      [] s = "BBC" -> "bbc"
      [] s = "Nokia" -> "nokia"
      [] s = "Apple" -> "apple"
      [] OTHER -> s

Corpus ==
    << [doc_uuid |-> "d1", title |-> "Doc One", category |-> "business",
        paras |-> << [para_uuid |-> "p1", text |-> "text of p1",
                      ents |-> << [text |-> "Vodafone", label |-> "ORG", ent_uuid |-> "u1"] >>],
                     [para_uuid |-> "p2", text |-> "text of p2",
                      ents |-> << [text |-> "Ernie Wise", label |-> "PERSON", ent_uuid |-> "u2"],
                                  [text |-> "Vodafone", label |-> "ORG", ent_uuid |-> "u3"] >>] >>],
       [doc_uuid |-> "d2", title |-> "Doc Two", category |-> "tech",
        paras |-> << [para_uuid |-> "p3", text |-> "text of p3",
                      ents |-> << [text |-> "BBC", label |-> "ORG", ent_uuid |-> "u4"],
                                  [text |-> "Ernie Wise", label |-> "PERSON", ent_uuid |-> "u5"],
                                  [text |-> "42", label |-> "CARDINAL", ent_uuid |-> "u6"] >>] >>] >>

merge_entity(st, ent_uuid, name, label) ==
    MergeNode(st, "Entity", "name", Lower(name),
              ("ent_uuid" :> ent_uuid) @@ ("label" :> label) @@ ("expiration" :> 0),
              NoProps)

create_document(st, doc_uuid, title, category) ==
    MergeNode(st, "Document", "doc_uuid", doc_uuid,
              ("title" :> title) @@ ("category" :> category) @@ ("expiration" :> 0),
              NoProps)

create_paragraph(st, para_uuid, text, idx, doc_uuid) ==
    LET s1 == MergeNode(st, "Paragraph", "para_uuid", para_uuid,
                        ("text" :> text) @@ ("index" :> idx) @@ ("doc_uuid" :> doc_uuid)
                          @@ ("expiration" :> 0),
                        NoProps)
    IN MergeRelPairs(s1, "PART_OF",
                     Ids(NodesBy(s1, "Paragraph", "para_uuid", para_uuid))
                       \X Ids(NodesBy(s1, "Document", "doc_uuid", doc_uuid)),
                     ("expiration" :> 0), NoProps)

link_mentions(st, ent_uuid, doc_uuid, para_uuid) ==
    LET es == Ids(NodesBy(st, "Entity", "ent_uuid", ent_uuid))
        s1 == MergeRelPairs(st, "MENTIONS",
                            es \X Ids(NodesBy(st, "Paragraph", "para_uuid", para_uuid)),
                            ("expiration" :> 0), NoProps)
    IN MergeRelPairs(s1, "MENTIONS",
                     es \X Ids(NodesBy(s1, "Document", "doc_uuid", doc_uuid)),
                     ("expiration" :> 0), NoProps)

RECURSIVE IngestEnts(_, _, _, _, _)
IngestEnts(st, ents, i, doc_uuid, para_uuid) ==
    IF i > Len(ents) THEN st
    ELSE LET ent == ents[i] IN
         IF ent.label \notin ALLOWED_LABELS
         THEN IngestEnts(st, ents, i + 1, doc_uuid, para_uuid)
         ELSE IngestEnts(
                link_mentions(merge_entity(st, ent.ent_uuid, ent.text, ent.label),
                              ent.ent_uuid, doc_uuid, para_uuid),
                ents, i + 1, doc_uuid, para_uuid)

RECURSIVE IngestParas(_, _, _)
IngestParas(st, file, i) ==
    IF i > Len(file.paras) THEN st
    ELSE LET p == file.paras[i] IN
         IngestParas(
            IngestEnts(create_paragraph(st, p.para_uuid, p.text, i - 1, file.doc_uuid),
                       p.ents, 1, file.doc_uuid, p.para_uuid),
            file, i + 1)

ingest_file(st, file) ==
    IngestParas(create_document(st, file.doc_uuid, file.title, file.category), file, 1)

RECURSIVE IngestFiles(_, _)
IngestFiles(st, i) ==
    IF i > Len(Corpus) THEN st ELSE IngestFiles(ingest_file(st, Corpus[i]), i + 1)

\* ingest.main: wipe the store, then ingest every file
LongInit == IngestFiles(EmptyStore, 1)

(***************************************************************************)
(* Promotion (cache_cypher_query.py / ner_service.py): copy an entity's    *)
(* supporting sub-graph from the authoritative store into the working set. *)
(***************************************************************************)
\* PROMOTION_QUERY: WHERE m.expiration IS NULL OR m.expiration = 0 OR m.expiration > $now
PromotionVisible(m, now) ==
    \/ ~HasProp(m, "expiration")
    \/ m.props.expiration = 0
    \/ m.props.expiration > now

\* _node_get(node, key, default)
NodeGet(n, k, default) == IF HasProp(n, k) THEN n.props[k] ELSE default

PartOfDocs(st, t) ==
    {d \in st.nodes : d.label = "Document" /\ RelsBetween(st, "PART_OF", t.id, d.id) # {}}

ParasOf(st, doc) ==
    {p \in st.nodes : p.label = "Paragraph" /\ RelsBetween(st, "PART_OF", p.id, doc.id) # {}}

\* the query collecting only the mentioned paragraph, not its document's paragraphs
PROMOTION_QUERY_TargetOnly(st, name, label, now) ==
    LET es == {e \in st.nodes : /\ e.label = "Entity"
                                /\ HasProp(e, "name") /\ e.props.name = name
                                /\ HasProp(e, "label") /\ e.props.label = label}
    IN UNION {
         UNION { LET t == NodeById(st, m.dst)
                     ds == PartOfDocs(st, t)
                 IN  {[e |-> e, doc |-> doc,
                       paras |-> IF t.label = "Paragraph" THEN {t} ELSE {}]
                      : doc \in (IF ds = {} THEN {t} ELSE ds)}
                 : m \in {r \in st.rels : /\ r.type = "MENTIONS"
                                          /\ r.src = e.id
                                          /\ PromotionVisible(r, now)} }
         : e \in es }

\* rows (e, doc, paras) returned by PROMOTION_QUERY
PROMOTION_QUERY(st, name, label, now) ==
    LET es == {e \in st.nodes : /\ e.label = "Entity"
                                /\ HasProp(e, "name") /\ e.props.name = name
                                /\ HasProp(e, "label") /\ e.props.label = label}
        edocs == UNION {
                   UNION { LET t == NodeById(st, m.dst)
                               ds == PartOfDocs(st, t)
                           IN  {<<e, doc>> : doc \in (IF ds = {} THEN {t} ELSE ds)}
                           : m \in {r \in st.rels : /\ r.type = "MENTIONS"
                                                    /\ r.src = e.id
                                                    /\ PromotionVisible(r, now)} }
                   : e \in es }
    IN {[e |-> ed[1], doc |-> ed[2], paras |-> ParasOf(st, ed[2])] : ed \in edocs}

_merge_entity(st, ent_uuid, name, label, exp_ts) ==
    MergeNode(st, "Entity", "ent_uuid", ent_uuid,
              ("name" :> name) @@ ("label" :> label) @@ ("expiration" :> exp_ts),
              ("expiration" :> exp_ts))

\* a MERGE that stamps the paragraph on create only
_merge_paragraph_OnCreate(st, para_node, exp_ts) ==
    MergeNode(st, "Paragraph", "para_uuid", para_node.props.para_uuid,
              ("text" :> NodeGet(para_node, "text", "")) @@
              ("index" :> NodeGet(para_node, "index", 0)) @@
              ("doc_uuid" :> NodeGet(para_node, "doc_uuid", "")) @@
              ("expiration" :> exp_ts),
              NoProps)

_merge_paragraph(st, para_node, exp_ts) ==
    MergeNode(st, "Paragraph", "para_uuid", para_node.props.para_uuid,
              ("text" :> NodeGet(para_node, "text", "")) @@
              ("index" :> NodeGet(para_node, "index", 0)) @@
              ("doc_uuid" :> NodeGet(para_node, "doc_uuid", "")) @@
              ("expiration" :> exp_ts),
              ("expiration" :> exp_ts))

_merge_document(st, doc_node, exp_ts) ==
    MergeNode(st, "Document", "doc_uuid", NodeGet(doc_node, "doc_uuid", ""),
              ("title" :> NodeGet(doc_node, "title", "")) @@
              ("category" :> NodeGet(doc_node, "category", "")) @@
              ("expiration" :> exp_ts),
              ("expiration" :> exp_ts))

_merge_part_of(st, para_uuid, doc_uuid) ==
    MergeRelPairs(st, "PART_OF",
                  Ids(NodesBy(st, "Paragraph", "para_uuid", para_uuid))
                    \X Ids(NodesBy(st, "Document", "doc_uuid", doc_uuid)),
                  NoProps, NoProps)

\* an expiration that extends the time left instead of replacing it
_merge_mentions_Additive(st, ent_uuid, target_label, target_id_name, target_id_value, exp_ts) ==
    LET pairs == Ids(NodesBy(st, "Entity", "ent_uuid", ent_uuid))
                   \X Ids(NodesBy(st, target_label, target_id_name, target_id_value))
        old == {r \in st.rels : r.type = "MENTIONS" /\ <<r.src, r.dst>> \in pairs
                                 /\ HasProp(r, "expiration")}
        merged == MergeRelPairs(st, "MENTIONS", pairs, NoProps, ("expiration" :> exp_ts))
    IN [merged EXCEPT !.rels =
          {IF \E o \in old : o.id = r.id /\ o.props.expiration > exp_ts
           THEN [r EXCEPT !.props = SetProps(@, ("expiration" :>
                    (CHOOSE o \in old : o.id = r.id).props.expiration))]
           ELSE r : r \in merged.rels}]

\* the edge stamped ON CREATE only: a second promotion does not refresh it
_merge_mentions_OnCreate(st, ent_uuid, target_label, target_id_name, target_id_value, exp_ts) ==
    MergeRelPairs(st, "MENTIONS",
                  Ids(NodesBy(st, "Entity", "ent_uuid", ent_uuid))
                    \X Ids(NodesBy(st, target_label, target_id_name, target_id_value)),
                  ("expiration" :> exp_ts), NoProps)

_merge_mentions(st, ent_uuid, target_label, target_id_name, target_id_value, exp_ts) ==
    MergeRelPairs(st, "MENTIONS",
                  Ids(NodesBy(st, "Entity", "ent_uuid", ent_uuid))
                    \X Ids(NodesBy(st, target_label, target_id_name, target_id_value)),
                  NoProps, ("expiration" :> exp_ts))

RECURSIVE PromoteParas(_, _, _, _)
\* for p in para_nodes: paragraph, PART_OF, MENTIONS
PromoteParas(st, e_node, paras, exp_ts) ==
    IF paras = {} THEN st
    ELSE LET p == CHOOSE q \in paras : TRUE
             s1 == _merge_paragraph(st, p, exp_ts)
             s2 == _merge_part_of(s1, p.props.para_uuid, NodeGet(p, "doc_uuid", ""))
             s3 == _merge_mentions(s2, e_node.props.ent_uuid, "Paragraph", "para_uuid",
                                   p.props.para_uuid, exp_ts)
         IN PromoteParas(s3, e_node, paras \ {p}, exp_ts)

\* a loop body that copies the document whatever the flag says
PromoteRecord_AlwaysDocs(st, rec, promoteDocs, exp_ts) ==
    PromoteParas(_merge_mentions(_merge_document(
                                    _merge_entity(st, rec.e.props.ent_uuid, rec.e.props.name,
                                                  rec.e.props.label, exp_ts),
                                    rec.doc, exp_ts),
                                 rec.e.props.ent_uuid, "Document", "doc_uuid",
                                 NodeGet(rec.doc, "doc_uuid", ""), exp_ts),
                 rec.e, rec.paras, exp_ts)

\* body of the loop over the records of PROMOTION_QUERY
PromoteRecord(st, rec, promoteDocs, exp_ts) ==
    LET s1 == _merge_entity(st, rec.e.props.ent_uuid, rec.e.props.name,
                            rec.e.props.label, exp_ts)
        s2 == IF promoteDocs
              THEN _merge_mentions(_merge_document(s1, rec.doc, exp_ts),
                                   rec.e.props.ent_uuid, "Document", "doc_uuid",
                                   NodeGet(rec.doc, "doc_uuid", ""), exp_ts)
              ELSE s1
    IN PromoteParas(s2, rec.e, rec.paras, exp_ts)

RECURSIVE PromoteRecords(_, _, _, _)
PromoteRecords(st, recs, promoteDocs, exp_ts) ==
    IF recs = {} THEN st
    ELSE LET rec == CHOOSE r \in recs : TRUE IN
         PromoteRecords(PromoteRecord(st, rec, promoteDocs, exp_ts),
                        recs \ {rec}, promoteDocs, exp_ts)

\* a promotion that first drops the expired edges of the working set
promote_entity_Evicting(lng, sht, name, label, promoteDocs, now_ms, exp_ts) ==
    PromoteRecords([sht EXCEPT !.rels = {r \in @ : ~(/\ HasProp(r, "expiration")
                                                     /\ r.props.expiration # 0
                                                     /\ r.props.expiration < now_ms)}],
                   PROMOTION_QUERY(lng, name, label, now_ms), promoteDocs, exp_ts)

\* promote_entity / _promote_entity: returns the new working-set store
promote_entity(lng, sht, name, label, promoteDocs, now_ms, exp_ts) ==
    PromoteRecords(sht, PROMOTION_QUERY(lng, name, label, now_ms), promoteDocs, exp_ts)

\* the store statements of the paragraph loop of promote_entity, in program order
RECURSIVE ParaStmts(_, _)
ParaStmts(e_node, paras) ==
    IF paras = {} THEN << >>
    ELSE LET p == CHOOSE q \in paras : TRUE IN
         << [op |-> "paragraph", e |-> e_node, x |-> p],
            [op |-> "part_of", e |-> e_node, x |-> p],
            [op |-> "mentions_para", e |-> e_node, x |-> p] >>
           \o ParaStmts(e_node, paras \ {p})

\* the statements of one pass of the loop over the records
RecordStmts(rec, promoteDocs) ==
    << [op |-> "entity", e |-> rec.e, x |-> rec.e] >>
      \o (IF promoteDocs
          THEN << [op |-> "document", e |-> rec.e, x |-> rec.doc],
                  [op |-> "mentions_doc", e |-> rec.e, x |-> rec.doc] >>
          ELSE << >>)
      \o ParaStmts(rec.e, rec.paras)

RECURSIVE RecordsStmts(_, _)
RecordsStmts(recs, promoteDocs) ==
    IF recs = {} THEN << >>
    ELSE LET rec == CHOOSE r \in recs : TRUE IN
         RecordStmts(rec, promoteDocs) \o RecordsStmts(recs \ {rec}, promoteDocs)

\* promote_entity as the list of statements it sends: the read of the
\* authoritative store, then the working-set writes
PromoteStmts(lng, name, label, promoteDocs, now_ms) ==
    << [op |-> "query"] >>
      \o RecordsStmts(PROMOTION_QUERY(lng, name, label, now_ms), promoteDocs)

\* one statement applied to the working-set store
ExecStmt(st, stmt, exp_ts) ==
    CASE stmt.op = "query" -> st
      [] stmt.op = "entity" ->
           _merge_entity(st, stmt.e.props.ent_uuid, stmt.e.props.name,
                         stmt.e.props.label, exp_ts)
      [] stmt.op = "document" -> _merge_document(st, stmt.x, exp_ts)
      [] stmt.op = "mentions_doc" ->
           _merge_mentions(st, stmt.e.props.ent_uuid, "Document", "doc_uuid",
                           NodeGet(stmt.x, "doc_uuid", ""), exp_ts)
      [] stmt.op = "paragraph" -> _merge_paragraph(st, stmt.x, exp_ts)
      [] stmt.op = "part_of" ->
           _merge_part_of(st, stmt.x.props.para_uuid, NodeGet(stmt.x, "doc_uuid", ""))
      [] stmt.op = "mentions_para" ->
           _merge_mentions(st, stmt.e.props.ent_uuid, "Paragraph", "para_uuid",
                           stmt.x.props.para_uuid, exp_ts)

RECURSIVE RunStmts(_, _, _, _, _)
\* statements i .. n of a list applied in order
RunStmts(st, stmts, exp_ts, i, n) ==
    IF i > n THEN st
    ELSE RunStmts(ExecStmt(st, stmts[i], exp_ts), stmts, exp_ts, i + 1, n)

\* the loop body with the key marked although promote_entity raised
AskKey_MarkFirst(key, a, lng, promoteDocs, failAt, now_ms) ==
    IF key \in a.seen THEN a
    ELSE LET stmts == PromoteStmts(lng, key[1], key[2], promoteDocs, now_ms)
             n == Len(stmts)
             exp_ts == now_ms + TTL_MS
         IN IF failAt > a.done /\ failAt <= a.done + n
            THEN [seen |-> a.seen \cup {key},
                  short |-> RunStmts(a.short, stmts, exp_ts, 1, failAt - a.done - 1),
                  done |-> failAt, invoked |-> Append(a.invoked, key), raised |-> TRUE]
            ELSE [seen |-> a.seen \cup {key},
                  short |-> RunStmts(a.short, stmts, exp_ts, 1, n),
                  done |-> a.done + n, invoked |-> Append(a.invoked, key), raised |-> FALSE]

\* the loop body without the test on _seen_entities
AskKey_NoCheck(key, a, lng, promoteDocs, failAt, now_ms) ==
    LET stmts == PromoteStmts(lng, key[1], key[2], promoteDocs, now_ms)
        n == Len(stmts)
        exp_ts == now_ms + TTL_MS
    IN IF failAt > a.done /\ failAt <= a.done + n
       THEN [a EXCEPT !.short = RunStmts(a.short, stmts, exp_ts, 1, failAt - a.done - 1),
                      !.done = failAt, !.invoked = Append(@, key), !.raised = TRUE]
       ELSE [seen |-> a.seen \cup {key},
             short |-> RunStmts(a.short, stmts, exp_ts, 1, n),
             done |-> a.done + n, invoked |-> Append(a.invoked, key), raised |-> FALSE]

\* ask(): if key not in _seen_entities: promote_entity(...); _seen_entities.add(key)
\* a holds the tracker, the working set, the statements sent so far, the keys
\* promote_entity was called for, and whether a statement raised; statement
\* number failAt of the request raises (0: none does)
AskKey(key, a, lng, promoteDocs, failAt, now_ms) ==
    IF key \in a.seen THEN a
    ELSE LET stmts == PromoteStmts(lng, key[1], key[2], promoteDocs, now_ms)
             n == Len(stmts)
             exp_ts == now_ms + TTL_MS
         IN IF failAt > a.done /\ failAt <= a.done + n
            THEN [a EXCEPT !.short = RunStmts(a.short, stmts, exp_ts, 1, failAt - a.done - 1),
                           !.done = failAt, !.invoked = Append(@, key), !.raised = TRUE]
            ELSE [seen |-> a.seen \cup {key},
                  short |-> RunStmts(a.short, stmts, exp_ts, 1, n),
                  done |-> a.done + n, invoked |-> Append(a.invoked, key), raised |-> FALSE]

RECURSIVE AskLoop(_, _, _, _, _, _, _)
\* for name, label in ent_pairs: ... ; an exception leaves the loop
AskLoop(ent_pairs, i, a, lng, promoteDocs, failAt, now_ms) ==
    IF i > Len(ent_pairs) \/ a.raised THEN a
    ELSE AskLoop(ent_pairs, i + 1,
                 AskKey(ent_pairs[i], a, lng, promoteDocs, failAt, now_ms),
                 lng, promoteDocs, failAt, now_ms)

\* an expiration that is the TTL itself, not now + TTL
_calculate_expiration_NoNow(now_ms, ttl_ms) ==
    LET ttl == IF ttl_ms = -1 THEN DEFAULT_PROMOTION_TTL_MS ELSE ttl_ms IN
    IF ttl <= 0 THEN 0 ELSE ttl

\* ner_service._calculate_expiration; ttl_ms = -1 stands for None
_calculate_expiration(now_ms, ttl_ms) ==
    LET ttl == IF ttl_ms = -1 THEN DEFAULT_PROMOTION_TTL_MS ELSE ttl_ms IN
    IF ttl <= 0 THEN 0 ELSE now_ms + ttl

(***************************************************************************)
(* Fetch (cache_cypher_query.fetch_paragraphs, FETCH_PARAS_QUERY).         *)
(***************************************************************************)
\* the filter without its "expiration = 0 is permanent" clause
FetchVisible_NoZero(m, now) ==
    \/ ~HasProp(m, "expiration")
    \/ m.props.expiration > now

\* FETCH_PARAS_QUERY: AND (m.expiration IS NULL OR m.expiration = 0 OR m.expiration > $now)
FetchVisible(m, now) ==
    \/ ~HasProp(m, "expiration")
    \/ m.props.expiration = 0
    \/ m.props.expiration > now

\* one row per match of (e)-[m:MENTIONS]->(t:Paragraph) OPTIONAL (t)-[:PART_OF]->(d)
FetchMatches(st, entity_list, now) ==
    UNION {
      LET parts == {r \in st.rels : /\ r.type = "PART_OF" /\ r.src = m.dst
                                    /\ NodeById(st, r.dst).label = "Document"}
      IN  IF parts = {}
          THEN {[e |-> m.src, m |-> m.id, t |-> m.dst, po |-> NullId, d |-> NullId]}
          ELSE {[e |-> m.src, m |-> m.id, t |-> m.dst, po |-> r.id, d |-> r.dst] : r \in parts}
      : m \in {r \in st.rels :
                 /\ r.type = "MENTIONS"
                 /\ NodeById(st, r.src).label = "Entity"
                 /\ NodeById(st, r.dst).label = "Paragraph"
                 /\ LET e == NodeById(st, r.src) IN
                      /\ HasProp(e, "name") /\ HasProp(e, "label")
                      /\ <<Lower(e.props.name), e.props.label>> \in entity_list
                 /\ FetchVisible(r, now)} }

\* WITH t, d, count(e) AS matchingEntities
FetchGroups(st, entity_list, now) ==
    LET rows == FetchMatches(st, entity_list, now) IN
    {[t |-> g[1], d |-> g[2],
      matchingEntities |-> Cardinality({r \in rows : r.t = g[1] /\ r.d = g[2]})]
     : g \in {<<r.t, r.d>> : r \in rows}}

\* an ORDER BY on the count alone
SortsBefore_CountOnly(st, a, b) ==
    a.matchingEntities > b.matchingEntities

\* ORDER BY matchingEntities DESC, coalesce(t.index, 0) ASC
SortsBefore(st, a, b) ==
    \/ a.matchingEntities > b.matchingEntities
    \/ /\ a.matchingEntities = b.matchingEntities
       /\ NodeGet(NodeById(st, a.t), "index", 0) < NodeGet(NodeById(st, b.t), "index", 0)

RECURSIVE SortedOrders(_, _)
\* every order of the groups the ORDER BY allows (ties are left to the store)
SortedOrders(st, G) ==
    IF G = {} THEN {<< >>}
    ELSE UNION {{<<g>> \o s : s \in SortedOrders(st, G \ {g})}
                : g \in {x \in G : \A y \in G : ~SortsBefore(st, y, x)}}

Min(a, b) == IF a < b THEN a ELSE b

\* RETURN t.text, t.index, coalesce(d.title,'Untitled'), coalesce(d.category,'N/A'), count
ResultRow(st, g) ==
    LET t == NodeById(st, g.t) IN
    [text |-> NodeGet(t, "text", "null"),
     idx |-> NodeGet(t, "index", -1),
     title |-> IF g.d = NullId THEN "Untitled" ELSE NodeGet(NodeById(st, g.d), "title", "Untitled"),
     category |-> IF g.d = NullId THEN "N/A" ELSE NodeGet(NodeById(st, g.d), "category", "N/A"),
     matchingEntities |-> g.matchingEntities]

\* the result lists FETCH_PARAS_QUERY can return
FETCH_PARAS_QUERY(st, entity_list, now, topK) ==
    {[i \in 1..Min(topK, Len(s)) |-> ResultRow(st, s[i])]
     : s \in SortedOrders(st, FetchGroups(st, entity_list, now))}

Range(f) == {f[i] : i \in DOMAIN f}

(***************************************************************************)
(* The long-term-only query path (helper/nocache_rag_query.py).            *)
(***************************************************************************)
\* AND (m.expiration = 0 OR m.expiration > $now): a null expiration compares to null
NoCacheVisible(m, now) ==
    /\ HasProp(m, "expiration")
    /\ \/ m.props.expiration = 0
       \/ m.props.expiration > now

\* one row per match of (e:Entity)-[m:MENTIONS]->(p:Paragraph)-[:PART_OF]->(d:Document)
NoCacheMatches(st, entity_list, now) ==
    {[e |-> m.src, m |-> m.id, t |-> m.dst, po |-> r.id, d |-> r.dst]
     : <<m, r>> \in
         {mr \in st.rels \X st.rels :
            /\ mr[1].type = "MENTIONS" /\ mr[2].type = "PART_OF"
            /\ mr[2].src = mr[1].dst
            /\ NodeById(st, mr[1].src).label = "Entity"
            /\ NodeById(st, mr[1].dst).label = "Paragraph"
            /\ NodeById(st, mr[2].dst).label = "Document"
            /\ LET e == NodeById(st, mr[1].src) IN
                 /\ HasProp(e, "name") /\ HasProp(e, "label")
                 /\ <<Lower(e.props.name), e.props.label>> \in entity_list
            /\ NoCacheVisible(mr[1], now)}}

\* WITH p, d, count(e) AS matchingEntities
NoCacheGroups(st, entity_list, now) ==
    LET rows == NoCacheMatches(st, entity_list, now) IN
    {[t |-> g[1], d |-> g[2],
      matchingEntities |-> Cardinality({r \in rows : r.t = g[1] /\ r.d = g[2]})]
     : g \in {<<r.t, r.d>> : r \in rows}}

\* ORDER BY matchingEntities DESC, p.index ASC (a null index sorts last)
NoCacheSortsBefore(st, a, b) ==
    \/ a.matchingEntities > b.matchingEntities
    \/ /\ a.matchingEntities = b.matchingEntities
       /\ HasProp(NodeById(st, a.t), "index")
       /\ \/ ~HasProp(NodeById(st, b.t), "index")
          \/ NodeById(st, a.t).props.index < NodeById(st, b.t).props.index

RECURSIVE NoCacheOrders(_, _)
NoCacheOrders(st, G) ==
    IF G = {} THEN {<< >>}
    ELSE UNION {{<<g>> \o s : s \in NoCacheOrders(st, G \ {g})}
                : g \in {x \in G : \A y \in G : ~NoCacheSortsBefore(st, y, x)}}

\* the result lists the long-term-only fetch can return
fetch_paragraphs_by_entities(st, entity_pairs, now_ms, top_k) ==
    IF Len(entity_pairs) = 0 THEN {<< >>}
    ELSE {[i \in 1..Min(top_k, Len(s)) |-> ResultRow(st, s[i])]
          : s \in NoCacheOrders(st, NoCacheGroups(st,
                     {<<Lower(kp[1]), kp[2]>> : kp \in Range(entity_pairs)}, now_ms))}

\* the query sent whatever the key list holds
FetchStoreReads_Always(entity_pairs, top_k) == 1

\* the number of session.run calls fetch_paragraphs makes
FetchStoreReads(entity_pairs, top_k) ==
    IF Len(entity_pairs) = 0 THEN 0 ELSE 1

\* fetch_paragraphs(session, entity_pairs, top_k) evaluated at wall-clock now_ms
fetch_paragraphs(st, entity_pairs, now_ms, top_k) ==
    IF Len(entity_pairs) = 0 THEN {<< >>}
    ELSE FETCH_PARAS_QUERY(st, Range(entity_pairs), now_ms, top_k)

(***************************************************************************)
(* Eviction (evict_expired_short_term.py).                                 *)
(***************************************************************************)
BATCH_LIMIT == 10000

\* WHERE x.expiration < $now (null compares to null, which WHERE rejects)
ExpiredBefore(x, now) == HasProp(x, "expiration") /\ x.props.expiration < now

\* a driver built for the authoritative store
connect_Long == "long"

\* connect(): the store the sweeper's driver is built for (SHORT_NEO4J_URI)
connect == "short"

\* WITH x LIMIT n : any n of the rows
LimitRows(rows, n) ==
    IF Cardinality(rows) <= n THEN {rows}
    ELSE {c \in SUBSET rows : Cardinality(c) = n}

\* purge_expired(tx, now_ms): the outcomes of one transaction
purge_expired(st, now_ms) ==
    LET \* MATCH ()-[r]-() is undirected: each relationship matches once per direction
        relRows == {<<r.id, dir>> : r \in {x \in st.rels : ExpiredBefore(x, now_ms)},
                                    dir \in {"out", "in"}}
    IN UNION {
         LET relIds == {c[1] : c \in relChosen}
             s1 == [st EXCEPT !.rels = {r \in @ : r.id \notin relIds}]
             nodeRows == {n.id : n \in {x \in s1.nodes : ExpiredBefore(x, now_ms)}}
         IN {[store |-> [nodes |-> {n \in s1.nodes : n.id \notin nodeChosen},
                         rels |-> {r \in s1.rels : r.src \notin nodeChosen
                                                   /\ r.dst \notin nodeChosen}],
              rel_cnt |-> Cardinality(relChosen),
              node_cnt |-> Cardinality(nodeChosen),
              rels_deleted |-> {r \in st.rels : r.id \in relIds},
              nodes_deleted |-> {n \in s1.nodes : n.id \in nodeChosen},
              rels_detached |-> {r \in s1.rels : r.src \in nodeChosen \/ r.dst \in nodeChosen}]
             : nodeChosen \in LimitRows(nodeRows, BATCH_LIMIT)}
         : relChosen \in LimitRows(relRows, BATCH_LIMIT) }

(***************************************************************************)
(* Long-term commit (short_to_long_transfer.py): copy every unpromoted     *)
(* document of the working set, with its neighbourhood, into the           *)
(* authoritative store.                                                    *)
(***************************************************************************)
\* _Q_MERGE_DOCUMENT: MERGE (d:Document {doc_uuid}) SET d += $props
transfer_merge_document(lng, props) ==
    MergeNode(lng, "Document", "doc_uuid", props.doc_uuid, NoProps, props)

\* _Q_MERGE_PARAGRAPH: MATCH (d) MERGE (p:Paragraph {para_uuid}) SET p += $props
\* MERGE (p)-[:PART_OF]->(d)
transfer_merge_paragraph(lng, p_props, doc_uuid) ==
    IF NodesBy(lng, "Document", "doc_uuid", doc_uuid) = {} THEN lng
    ELSE LET s1 == MergeNode(lng, "Paragraph", "para_uuid", p_props.para_uuid, NoProps, p_props)
         IN MergeRelPairs(s1, "PART_OF",
                          Ids(NodesBy(s1, "Paragraph", "para_uuid", p_props.para_uuid))
                            \X Ids(NodesBy(s1, "Document", "doc_uuid", doc_uuid)),
                          NoProps, NoProps)

\* _Q_MERGE_ENTITY: MERGE (e:Entity {ent_uuid}) SET e += $props
transfer_merge_entity(lng, e_props) ==
    MergeNode(lng, "Entity", "ent_uuid", e_props.ent_uuid, NoProps, e_props)

\* MATCH (e), (t) MERGE (e)-[m:MENTIONS]->(t) REMOVE m.expiration
transfer_merge_mentions(lng, ent_uuid, target_label, target_uuid) ==
    LET key == IF target_label = "Document" THEN "doc_uuid" ELSE "para_uuid"
        es == Ids(NodesBy(lng, "Entity", "ent_uuid", ent_uuid))
        ts == Ids(NodesBy(lng, target_label, key, target_uuid))
        s1 == MergeRelPairs(lng, "MENTIONS", es \X ts, NoProps, NoProps)
    IN [s1 EXCEPT !.rels =
          {IF r.type = "MENTIONS" /\ r.src \in es /\ r.dst \in ts
           THEN [r EXCEPT !.props = RemoveProp(@, "expiration")] ELSE r
           : r \in s1.rels}]

\* MATCH (p:Paragraph)-[:PART_OF]->(:Document {doc_uuid:$du}) RETURN p
TransferParas(sht, du) ==
    {p \in sht.nodes : /\ p.label = "Paragraph"
                       /\ \E d \in NodesBy(sht, "Document", "doc_uuid", du) :
                             RelsBetween(sht, "PART_OF", p.id, d.id) # {}}

\* MATCH (e:Entity)-[:MENTIONS]->(x) WHERE (x:Document AND x.doc_uuid = $du)
\*                                      OR (x:Paragraph AND x.doc_uuid = $du)
TransferMentions(sht, du) ==
    {r \in sht.rels :
        /\ r.type = "MENTIONS"
        /\ NodeById(sht, r.src).label = "Entity"
        /\ LET x == NodeById(sht, r.dst) IN
              /\ x.label \in {"Document", "Paragraph"}
              /\ HasProp(x, "doc_uuid") /\ x.props.doc_uuid = du}

RECURSIVE TransferParaLoop(_, _, _)
TransferParaLoop(lng, paras, du) ==
    IF paras = {} THEN lng
    ELSE LET p == CHOOSE q \in paras : TRUE IN
         TransferParaLoop(transfer_merge_paragraph(lng, p.props, du), paras \ {p}, du)

RECURSIVE TransferEntityLoop(_, _)
TransferEntityLoop(lng, ents) ==
    IF ents = {} THEN lng
    ELSE LET e == CHOOSE q \in ents : TRUE IN
         TransferEntityLoop(transfer_merge_entity(lng, e.props), ents \ {e})

RECURSIVE TransferMentionLoop(_, _)
\* rows (e_id, tgt_lbl, tgt_id)
TransferMentionLoop(lng, rows) ==
    IF rows = {} THEN lng
    ELSE LET row == CHOOSE q \in rows : TRUE IN
         TransferMentionLoop(transfer_merge_mentions(lng, row[1], row[2], row[3]),
                             rows \ {row})

\* _promote_one(doc_node, stx, ltx): the writes of the two open transactions
_promote_one(doc_node, sht, lng, now_ms) ==
    LET doc_props == doc_node.props
        du == doc_props.doc_uuid
        l1 == transfer_merge_document(lng, doc_props)
        l2 == TransferParaLoop(l1, TransferParas(sht, du), du)
        ms == TransferMentions(sht, du)
        l3 == TransferEntityLoop(l2, {NodeById(sht, r.src) : r \in ms})
        l4 == TransferMentionLoop(l3,
                {LET x == NodeById(sht, r.dst) IN
                   <<NodeById(sht, r.src).props.ent_uuid,
                     x.label,
                     IF x.label = "Paragraph" THEN x.props.para_uuid ELSE x.props.doc_uuid>>
                 : r \in ms})
        s1 == [sht EXCEPT !.nodes =
                 {IF n \in NodesBy(sht, "Document", "doc_uuid", du)
                  THEN [n EXCEPT !.props =
                          SetProps(@, ("promoted" :> TRUE) @@ ("promotedAt" :> now_ms))]
                  ELSE n
                  : n \in sht.nodes}]
    IN [short |-> s1, long |-> l4]

\* the selection that never asks for the validated flag
CommitEligible_NoFlag(sht, requireValidated) ==
    {d \in sht.nodes : d.label = "Document" /\ NodeGet(d, "promoted", FALSE) = FALSE}

\* the selection without its "not yet promoted" condition
CommitEligible_All(sht, requireValidated) ==
    {d \in sht.nodes :
        /\ d.label = "Document"
        /\ requireValidated => (HasProp(d, "validated") /\ d.props.validated = TRUE)}

\* main: MATCH (d:Document) WHERE COALESCE(d.promoted,false)=false
\*       [AND d.validated=true] RETURN d
CommitEligible(sht, requireValidated) ==
    {d \in sht.nodes :
        /\ d.label = "Document"
        /\ NodeGet(d, "promoted", FALSE) = FALSE
        /\ requireValidated => (HasProp(d, "validated") /\ d.props.validated = TRUE)}

\* how the transaction pair of one document can end
CommitOutcomes == {"ok", "fail_promote_one", "fail_stx_commit", "fail_ltx_commit"}

(***************************************************************************)
(* Fact insertion (example/reinforcement_learning.py) writes new documents *)
(* straight into the working set.                                          *)
(***************************************************************************)
EXPIRY_MS == 24 * 3600 * 1000

\* the facts of the run, with the uuid4() draws of their insertion
Facts ==
    << [fact |-> "Vodafone buys Nokia", doc_id |-> "f1", para_id |-> "fp1",
        ents |-> << [text |-> "Vodafone", label |-> "ORG", uuid |-> "u7"],
                    [text |-> "Nokia", label |-> "ORG", uuid |-> "u8"] >>] >>

\* a run over two facts that name the same company
FactsOfTwo ==
    Facts \o << [fact |-> "Vodafone sues BBC", doc_id |-> "f2", para_id |-> "fp2",
                 ents |-> << [text |-> "Vodafone", label |-> "ORG", uuid |-> "u9"],
                             [text |-> "BBC", label |-> "ORG", uuid |-> "u10"] >>] >>

RECURSIVE FactEnts(_, _, _, _, _, _)
\* for ent_name, ent_label in entities: MERGE the entity, MERGE both MENTIONS edges
FactEnts(st, ents, i, para_id, doc_id, expire) ==
    IF i > Len(ents) THEN st
    ELSE LET name == Lower(ents[i].text)
             s1 == MergeNode(st, "Entity", "name", name,
                             ("ent_uuid" :> ents[i].uuid) @@ ("label" :> ents[i].label)
                               @@ ("expiration" :> 0),
                             NoProps)
             es == Ids(NodesBy(s1, "Entity", "name", name))
             ps == Ids(NodesBy(s1, "Paragraph", "para_uuid", para_id))
             ds == Ids(NodesBy(s1, "Document", "doc_uuid", doc_id))
             s2 == IF ps = {} \/ ds = {} THEN s1
                   ELSE MergeRelPairs(
                          MergeRelPairs(s1, "MENTIONS", es \X ps, ("expiration" :> expire), NoProps),
                          "MENTIONS", es \X ds, ("expiration" :> expire), NoProps)
         IN FactEnts(s2, ents, i + 1, para_id, doc_id, expire)

\* insert_fact_with_expiry(tx, fact, nlp, expiry_ms) at wall-clock ts_now
insert_fact_with_expiry(st, f, expiry_ms, ts_now) ==
    LET expire == ts_now + expiry_ms
        d == [id |-> FreshId(st.nodes, <<"Document", f.doc_id>>), label |-> "Document",
              props |-> ("doc_uuid" :> f.doc_id) @@ ("title" :> f.fact) @@ ("content" :> f.fact)
                          @@ ("expiration" :> 0) @@ ("created_at" :> ts_now)]
        p == [id |-> FreshId(st.nodes, <<"Paragraph", f.para_id>>), label |-> "Paragraph",
              props |-> ("para_uuid" :> f.para_id) @@ ("text" :> f.fact) @@ ("index" :> 0)
                          @@ ("doc_uuid" :> f.doc_id) @@ ("expiration" :> 0)
                          @@ ("created_at" :> ts_now)]
        po == [id |-> FreshId(st.rels, <<"PART_OF", p.id, d.id>>), type |-> "PART_OF",
               src |-> p.id, dst |-> d.id, props |-> ("expiration" :> 0)]
        s1 == [nodes |-> st.nodes \cup {d, p}, rels |-> st.rels \cup {po}]
    IN FactEnts(s1, f.ents, 1, f.para_id, f.doc_id, expire)

(***************************************************************************)
(* Requests of the NER/promotion service and the model's TTL choices.      *)
(***************************************************************************)
K1 == <<"vodafone", "ORG">>
K2 == <<"ernie wise", "PERSON">>
K3 == <<"bbc", "ORG">>
K4 == <<"nokia", "ORG">>

TtlChoices == {0, TickMs, TTL_MS}

\* the (entity_pairs, ttl_ms) requests the model sends
PromoteInputs ==
    ({<<K1>>, <<K2>>} \X TtlChoices)
      \cup {<< <<K3>>, TTL_MS >>, << <<K4>>, TTL_MS >>, << <<K1, K3, K1>>, TickMs >>}

\* str.upper() on the labels that occur
Upper(s) == s

RECURSIVE Dedupe(_, _, _)
\* the dedup loop of _promote_entities
Dedupe(pairs, i, acc) ==
    IF i > Len(pairs) THEN acc
    ELSE LET key == <<Lower(pairs[i][1]), Upper(pairs[i][2])>> IN
         IF key[1] # "" /\ key[2] # "" /\ key \notin Range(acc)
         THEN Dedupe(pairs, i + 1, Append(acc, key))
         ELSE Dedupe(pairs, i + 1, acc)

RECURSIVE PromoteAll(_, _, _, _, _, _, _)
PromoteAll(lng, sht, keys, i, promoteDocs, now_ms, exp_ts) ==
    IF i > Len(keys) THEN sht
    ELSE PromoteAll(lng,
                    promote_entity(lng, sht, keys[i][1], keys[i][2], promoteDocs, now_ms, exp_ts),
                    keys, i + 1, promoteDocs, now_ms, exp_ts)

\* _promote_entities(entity_pairs, ttl_ms): the new working-set store
_promote_entities(lng, sht, entity_pairs, ttl_ms, promoteDocs, now_ms) ==
    LET deduped == Dedupe(entity_pairs, 1, << >>) IN
    IF Len(deduped) = 0 THEN sht
    ELSE PromoteAll(lng, sht, deduped, 1, promoteDocs, now_ms,
                    _calculate_expiration(now_ms, ttl_ms))

\* _promote_entities(entity_pairs, ttl_ms): the number it returns, which ner()
\* reports as promotion.promoted
PromotedReturn(entity_pairs) ==
    IF Len(entity_pairs) = 0 THEN 0 ELSE Len(Dedupe(entity_pairs, 1, << >>))

\* the keys of a request that PROMOTION_QUERY finds in the authoritative store
FoundKeys(lng, entity_pairs, now_ms) ==
    {k \in Range(Dedupe(entity_pairs, 1, << >>)) : PROMOTION_QUERY(lng, k[1], k[2], now_ms) # {}}

\* the uuids of the sub-graph a promotion of key copies
SubgraphUuids(lng, key, now_ms) ==
    UNION {{rec.e.props.ent_uuid, NodeGet(rec.doc, "doc_uuid", "")}
             \cup {p.props.para_uuid : p \in rec.paras}
           : rec \in PROMOTION_QUERY(lng, key[1], key[2], now_ms)}

Keys == {K1, K2, K3, K4}

VARIABLES
    long,                    \* the authoritative store
    short,                   \* the working-set store
    clock,                   \* wall clock, int(time.time() * 1000)
    PROMOTE_DOCUMENT_NODES,  \* configuration flag
    sweepPc,                 \* position of evict_expired_short_term.main
    total_rels, total_nodes, \* its running totals
    REQUIRE_VALIDATED,       \* configuration flag of the commit script
    commitPc,                \* position of short_to_long_transfer.main
    docs,                    \* its snapshot of documents still to copy
    promoted,                \* its counter of copied documents
    factPc,                  \* index of the next fact reinforcement_learning.main inserts
    commitLog,               \* history: the batch of the commit run and its failed documents
    lastOp,                  \* history: the operation that produced this state
    promoLog,                \* history: per key, the stamp (if any) of its last undisturbed promotion
    sweepStart,              \* history: what the store held when the sweeper run began
    _seen_entities,          \* cache_cypher_query: keys promoted during this process lifetime
    askPc,                   \* "serving", or "raised" once an exception left ask()
    promoCalls,              \* history: per key, promote_entity calls made and returned in this process
    inflight                 \* promote_entity calls that run statement by statement

vars == <<long, short, clock, PROMOTE_DOCUMENT_NODES, sweepPc, total_rels, total_nodes,
          REQUIRE_VALIDATED, commitPc, docs, promoted, factPc, commitLog,
          lastOp, promoLog, sweepStart, _seen_entities, askPc, promoCalls, inflight>>

askVars == <<_seen_entities, askPc, promoCalls, inflight>>

\* the two promote_entity calls that may run at the same time
Calls == {1, 2}

\* alone: no other call ran meanwhile; swept: a sweep deleted something meanwhile
NoCall == [status |-> "idle", stmts |-> << >>, pc |-> 1, exp |-> 0, alone |-> TRUE,
           swept |-> FALSE]

commitVars == <<REQUIRE_VALIDATED, commitPc, docs, promoted, commitLog>>

sweepVars == <<sweepPc, total_rels, total_nodes, sweepStart>>

NoBatch == [batch |-> {}, failed |-> {}]

\* everything but the authoritative store
InitRest(promoteDocs, requireValidated) ==
    /\ short = EmptyStore
    /\ clock = TickMs
    /\ PROMOTE_DOCUMENT_NODES = promoteDocs
    /\ sweepPc = "idle"
    /\ total_rels = 0
    /\ total_nodes = 0
    /\ REQUIRE_VALIDATED = requireValidated
    /\ commitPc = "idle"
    /\ docs = {}
    /\ promoted = 0
    /\ factPc = 1
    /\ commitLog = NoBatch
    /\ promoLog = [k \in Keys |-> {}]
    /\ sweepStart = [expired |-> 0, permanent |-> 0]
    /\ _seen_entities = {}
    /\ askPc = "serving"
    /\ promoCalls = [k \in Keys |-> [invoked |-> 0, returned |-> 0]]
    /\ inflight = [call |-> [c \in Calls |-> NoCall], last |-> 0]

InitFlags(promoteDocs, requireValidated) ==
    /\ long = LongInit
    /\ lastOp = [op |-> "init"]
    /\ InitRest(promoteDocs, requireValidated)

\* PROMOTE_DOCUMENT_NODES defaults to "1"
InitWith(requireValidated) == InitFlags(TRUE, requireValidated)

Init == InitWith(FALSE)

\* time.time() moves on between operations
Tick ==
    /\ sweepPc = "idle" /\ commitPc = "idle"
    /\ clock + TickMs <= MaxTicks * TickMs
    /\ clock' = clock + TickMs
    /\ lastOp' = [op |-> "tick"]
    /\ UNCHANGED <<long, short, PROMOTE_DOCUMENT_NODES, askVars, sweepVars, promoLog, commitVars, factPc>>

\* POST /ner with promote = true: ner() -> _promote_entities
Promote(req, ttl) ==
    /\ sweepPc = "idle" /\ commitPc = "idle"
    /\ short' = _promote_entities(long, short, req, ttl, PROMOTE_DOCUMENT_NODES, clock)
    /\ lastOp' = [op |-> "promote", req |-> req, ttl |-> ttl, now |-> clock,
                  promoted |-> PromotedReturn(req),
                  shortened |-> {k \in FoundKeys(long, req, clock) :
                                    \E stamp \in promoLog[k] :
                                        stamp > _calculate_expiration(clock, ttl)},
                  again |-> {k \in FoundKeys(long, req, clock) :
                                /\ ttl > 0
                                /\ \E stamp \in promoLog[k] : stamp < clock + ttl}]
    /\ LET found == FoundKeys(long, req, clock)
           touched == UNION {SubgraphUuids(long, k, clock) : k \in found}
       IN promoLog' = [k \in Keys |->
                         IF k \in found
                         THEN (IF ttl > 0 THEN {clock + ttl} ELSE {})
                         ELSE IF SubgraphUuids(long, k, clock) \cap touched # {}
                              THEN {}
                              ELSE promoLog[k]]
    /\ UNCHANGED <<long, clock, PROMOTE_DOCUMENT_NODES, askVars, sweepVars, commitVars, factPc>>

\* evict_expired_short_term.main: start of a run
SweepBegin ==
    /\ sweepPc = "idle"
    /\ sweepPc' = "running"
    /\ lastOp' = [op |-> "begin"]
    /\ sweepStart' =
         [expired |-> Cardinality({r \in short.rels :
                        HasProp(r, "expiration") /\ r.props.expiration # 0
                        /\ r.props.expiration < clock}),
          permanent |-> Cardinality({x \in short.rels \cup short.nodes :
                        HasProp(x, "expiration") /\ x.props.expiration = 0})]
    /\ UNCHANGED <<long, short, clock, PROMOTE_DOCUMENT_NODES, askVars, total_rels, total_nodes,
                   promoLog, commitVars, factPc>>

\* one pass of the while loop: write_transaction(purge_expired, now)
SweepPass ==
    /\ sweepPc = "running"
    /\ \E out \in purge_expired(IF connect = "short" THEN short ELSE long, clock) :
         /\ short' = IF connect = "short" THEN out.store ELSE short
         /\ long' = IF connect = "short" THEN long ELSE out.store
         /\ total_rels' = total_rels + out.rel_cnt
         /\ total_nodes' = total_nodes + out.node_cnt
         /\ sweepPc' = IF out.rel_cnt = 0 /\ out.node_cnt = 0 THEN "done" ELSE "running"
         /\ lastOp' = [op |-> "sweep", now |-> clock,
                       rel_cnt |-> out.rel_cnt, node_cnt |-> out.node_cnt,
                       rels_deleted |-> out.rels_deleted,
                       nodes_deleted |-> out.nodes_deleted,
                       rels_detached |-> out.rels_detached]
    /\ UNCHANGED <<clock, PROMOTE_DOCUMENT_NODES, askVars, promoLog, sweepStart, commitVars, factPc>>

\* the totals are printed and the process exits
SweepExit ==
    /\ sweepPc = "done"
    /\ sweepPc' = "idle"
    /\ total_rels' = 0
    /\ total_nodes' = 0
    /\ lastOp' = [op |-> "exit"]
    /\ sweepStart' = [expired |-> 0, permanent |-> 0]
    /\ UNCHANGED <<long, short, clock, PROMOTE_DOCUMENT_NODES, askVars, promoLog, commitVars, factPc>>

\* reinforcement_learning.main: insert the next fact
InsertFactFrom(facts) ==
    /\ sweepPc = "idle" /\ commitPc = "idle"
    /\ factPc <= Len(facts)
    /\ short' = insert_fact_with_expiry(short, facts[factPc], EXPIRY_MS, clock)
    /\ factPc' = factPc + 1
    /\ lastOp' = [op |-> "fact", doc |-> facts[factPc].doc_id, now |-> clock]
    /\ promoLog' = [k \in Keys |->
                      IF \E i \in DOMAIN facts[factPc].ents :
                            Lower(facts[factPc].ents[i].text) = k[1]
                      THEN {} ELSE promoLog[k]]
    /\ UNCHANGED <<long, clock, PROMOTE_DOCUMENT_NODES, askVars, sweepVars, commitVars>>

InsertFact == InsertFactFrom(Facts)

\* short_to_long_transfer.main: read the documents to copy
CommitBegin ==
    /\ commitPc = "idle"
    /\ commitPc' = "running"
    /\ docs' = CommitEligible(short, REQUIRE_VALIDATED)
    /\ promoted' = 0
    /\ commitLog' = [batch |-> {d.props.doc_uuid : d \in CommitEligible(short, REQUIRE_VALIDATED)},
                     failed |-> {}]
    /\ lastOp' = [op |-> "commit_begin"]
    /\ UNCHANGED <<long, short, clock, PROMOTE_DOCUMENT_NODES, askVars, sweepVars, REQUIRE_VALIDATED,
                   factPc, promoLog>>

\* one turn of the loop over docs: _promote_one, stx.commit(), ltx.commit().
\* An exception leaves the with-block, which rolls back what is still open,
\* and ends main.
CommitDoc(outcome) ==
    /\ commitPc = "running"
    /\ \E doc \in docs :
         LET out == _promote_one(doc, short, long, clock)
             ok == outcome = "ok"
         IN /\ short' = IF outcome \in {"ok", "fail_ltx_commit"} THEN out.short ELSE short
            /\ long' = IF ok THEN out.long ELSE long
            /\ docs' = IF ok THEN docs \ {doc} ELSE docs
            /\ promoted' = IF ok THEN promoted + 1 ELSE promoted
            /\ commitPc' = IF ok THEN "running" ELSE "aborted"
            /\ commitLog' = IF ok THEN commitLog
                            ELSE [commitLog EXCEPT !.failed = @ \cup {doc.props.doc_uuid}]
            /\ lastOp' = [op |-> "commit", doc |-> doc.props.doc_uuid, outcome |-> outcome,
                          now |-> clock, before |-> [short |-> short, long |-> long]]
    /\ UNCHANGED <<clock, PROMOTE_DOCUMENT_NODES, askVars, sweepVars, REQUIRE_VALIDATED, factPc, promoLog>>

\* the loop is over: the count is printed
CommitEnd ==
    /\ commitPc = "running"
    /\ docs = {}
    /\ commitPc' = "done"
    /\ lastOp' = [op |-> "commit_end"]
    /\ UNCHANGED <<long, short, clock, PROMOTE_DOCUMENT_NODES, askVars, sweepVars, REQUIRE_VALIDATED,
                   docs, promoted, commitLog, factPc, promoLog>>

\* the process exits
CommitExit ==
    /\ commitPc \in {"done", "aborted"}
    /\ commitPc' = "idle"
    /\ docs' = {}
    /\ promoted' = 0
    /\ commitLog' = NoBatch
    /\ lastOp' = [op |-> "commit_exit"]
    /\ UNCHANGED <<long, short, clock, PROMOTE_DOCUMENT_NODES, askVars, sweepVars, REQUIRE_VALIDATED,
                   factPc, promoLog>>

Next ==
    \/ Tick
    \/ \E inp \in PromoteInputs : Promote(inp[1], inp[2])
    \/ SweepBegin
    \/ SweepPass
    \/ SweepExit

Spec == Init /\ [][Next]_vars

\* the same operations with PROMOTE_DOCUMENT_NODES=0 in the environment
InitNoDocs == InitFlags(FALSE, FALSE)

SpecNoDocs == InitNoDocs /\ [][Next]_vars

\* the requests sent while the commit script is in use
CommitPromoteInputs == {<< <<K1>>, TTL_MS >>}

\* the clock of the runs that use the commit script
CommitTick ==
    /\ clock + TickMs <= MaxCommitTicks * TickMs
    /\ Tick

InitCommit == \E rv \in BOOLEAN : InitWith(rv)

NextCommit ==
    \/ CommitTick
    \/ \E inp \in CommitPromoteInputs : Promote(inp[1], inp[2])
    \/ InsertFact
    \/ CommitBegin
    \/ \E outcome \in CommitOutcomes : CommitDoc(outcome)
    \/ CommitEnd
    \/ CommitExit

\* promotion, fact insertion and the commit script, without the sweeper
SpecCommit == InitCommit /\ [][NextCommit]_vars

\* a document of the working set is flagged by hand or by another program:
\* SET d.validated = v
Validate(du, v) ==
    /\ sweepPc = "idle" /\ commitPc = "idle"
    /\ \E d \in NodesBy(short, "Document", "doc_uuid", du) : NodeGet(d, "validated", ~v) # v
    /\ short' = [short EXCEPT !.nodes =
                   {IF n \in NodesBy(short, "Document", "doc_uuid", du)
                    THEN [n EXCEPT !.props = SetProps(@, ("validated" :> v))] ELSE n
                    : n \in short.nodes}]
    /\ lastOp' = [op |-> "validate", doc |-> du, v |-> v]
    /\ UNCHANGED <<long, clock, PROMOTE_DOCUMENT_NODES, askVars, sweepVars, commitVars, factPc, promoLog>>

\* the documents that can be flagged
DocUuids == {"d1", "f1"}

NextValidated ==
    \/ \E inp \in CommitPromoteInputs : Promote(inp[1], inp[2])
    \/ InsertFact
    \/ \E du \in DocUuids, v \in BOOLEAN : Validate(du, v)
    \/ CommitBegin
    \/ \E outcome \in CommitOutcomes : CommitDoc(outcome)
    \/ CommitEnd
    \/ CommitExit

\* the commit script with and without REQUIRE_VALIDATED, over documents
\* flagged validated, flagged not validated, or not flagged
SpecValidated == InitCommit /\ [][NextValidated]_vars

\* ask(): fetch_paragraphs(sess, ent_pairs, top_k=100)
TOP_K == 100

\* the key lists and limits the retrieval is called with
FetchKeyLists == {<< >>, <<K1>>, <<K1, K1>>, <<K1, K3>>, <<K1, K2, K4>>}

TopKs == {0, 1, 2, TOP_K}

FetchPromoteInputs == {<<K1>>, <<K2>>, <<K3>>} \X {TTL_MS}

\* fetch_paragraphs(session, entity_pairs, top_k): one of the lists the query
\* can return
Fetch(entity_pairs, top_k) ==
    /\ sweepPc = "idle" /\ commitPc = "idle"
    /\ \E result \in fetch_paragraphs(short, entity_pairs, clock, top_k) :
          lastOp' = [op |-> "fetch", entity_pairs |-> entity_pairs, top_k |-> top_k,
                     now |-> clock, result |-> result,
                     reads |-> FetchStoreReads(entity_pairs, top_k)]
    /\ UNCHANGED <<long, short, clock, PROMOTE_DOCUMENT_NODES, askVars, sweepVars, commitVars,
                   factPc, promoLog>>

InsertTechFact == InsertFactFrom(FactsOfTwo)

NextFetch ==
    \/ \E inp \in FetchPromoteInputs : Promote(inp[1], inp[2])
    \/ InsertTechFact
    \/ \E entity_pairs \in FetchKeyLists, top_k \in TopKs : Fetch(entity_pairs, top_k)

\* promotions and fact insertions followed by retrievals
SpecFetch == Init /\ [][NextFetch]_vars

\* the entity lists extract_entities finds in the questions asked
AskQuestions == {<< >>, <<K1>>, <<K1, K1>>, <<K2, K1>>, <<K4, K1>>}

MaxFailAt == 6

\* which statement of a request raises; 0: none
FailPoints == 0..MaxFailAt

Count(seq, k) == Cardinality({i \in DOMAIN seq : seq[i] = k})

\* ask(llm, nlp, question, short_driver, long_driver)
Ask(ent_pairs, failAt) ==
    /\ askPc = "serving" /\ sweepPc = "idle" /\ commitPc = "idle"
    /\ LET a == AskLoop(ent_pairs, 1,
                        [seen |-> _seen_entities, short |-> short, done |-> 0,
                         invoked |-> << >>, raised |-> FALSE],
                        long, PROMOTE_DOCUMENT_NODES, failAt, clock)
       IN /\ short' = a.short
          /\ _seen_entities' = a.seen
          /\ askPc' = IF a.raised THEN "raised" ELSE "serving"
          /\ promoCalls' =
                [k \in Keys |->
                   [invoked |-> Min(2, promoCalls[k].invoked + Count(a.invoked, k)),
                    returned |-> Min(2, promoCalls[k].returned + Count(a.invoked, k)
                                          - (IF a.raised /\ a.invoked[Len(a.invoked)] = k
                                             THEN 1 ELSE 0))]]
          /\ \E result \in (IF a.raised THEN {<< >>}
                             ELSE fetch_paragraphs(a.short, ent_pairs, clock, TOP_K)) :
                lastOp' = [op |-> "ask", ent_pairs |-> ent_pairs, now |-> clock,
                           invoked |-> a.invoked, raised |-> a.raised, result |-> result]
    /\ promoLog' = [k \in Keys |-> {}]
    /\ UNCHANGED <<long, clock, PROMOTE_DOCUMENT_NODES, sweepVars, commitVars, factPc,
                   inflight>>

\* the process ended by the exception is started again
Restart ==
    /\ askPc = "raised"
    /\ askPc' = "serving"
    /\ _seen_entities' = {}
    /\ promoCalls' = [k \in Keys |-> [invoked |-> 0, returned |-> 0]]
    /\ lastOp' = [op |-> "restart"]
    /\ UNCHANGED <<long, short, clock, PROMOTE_DOCUMENT_NODES, sweepVars, commitVars,
                   factPc, promoLog, inflight>>

NextAsk ==
    \/ \E ent_pairs \in AskQuestions, failAt \in FailPoints : Ask(ent_pairs, failAt)
    \/ Restart

\* questions asked of one serving process after another
SpecAsk == Init /\ [][NextAsk]_vars

MaxRaceTicks == 4

\* the key both concurrent promotions are called for
RaceKey == K1

Other(c) == CHOOSE d \in Calls : d # c

\* promote_entity(name, label, long_sess, short_sess, now_ms) is called: it
\* computes exp_ts and reads the authoritative store
RaceBegin(c) ==
    /\ sweepPc = "idle" /\ commitPc = "idle"
    /\ inflight.call[c].status = "idle"
    /\ LET stmts == Tail(PromoteStmts(long, RaceKey[1], RaceKey[2],
                                      PROMOTE_DOCUMENT_NODES, clock))
           busy == inflight.call[Other(c)].status = "running"
       IN inflight' =
            [inflight EXCEPT
               !.call = [d \in Calls |->
                           IF d = c
                           THEN [status |-> IF Len(stmts) = 0 THEN "done" ELSE "running",
                                 stmts |-> stmts, pc |-> 1, exp |-> clock + TTL_MS,
                                 alone |-> ~busy, swept |-> FALSE]
                           ELSE [@[d] EXCEPT !.alone = @ /\ ~busy]]]
    /\ lastOp' = [op |-> "race"]
    /\ UNCHANGED <<long, short, clock, PROMOTE_DOCUMENT_NODES, sweepVars, commitVars,
                   factPc, promoLog, _seen_entities, askPc, promoCalls>>

\* the call sends its next statement to the working-set store
RaceStep(c) ==
    /\ inflight.call[c].status = "running"
    /\ LET me == inflight.call[c] IN
         /\ short' = ExecStmt(short, me.stmts[me.pc], me.exp)
         /\ inflight' = [inflight EXCEPT
                           !.call[c].pc = me.pc + 1,
                           !.call[c].status = IF me.pc = Len(me.stmts) THEN "done"
                                              ELSE "running",
                           !.last = c]
    /\ lastOp' = [op |-> "race"]
    /\ promoLog' = [k \in Keys |-> {}]
    /\ UNCHANGED <<long, clock, PROMOTE_DOCUMENT_NODES, sweepVars, commitVars,
                   factPc, _seen_entities, askPc, promoCalls>>

\* one purge_expired transaction of the sweeper, run between two statements
RaceSweep ==
    /\ sweepPc = "idle" /\ commitPc = "idle"
    /\ \E out \in purge_expired(short, clock) :
         /\ out.store # short
         /\ short' = out.store
    /\ inflight' = [inflight EXCEPT
                      !.call = [d \in Calls |->
                                  [@[d] EXCEPT !.swept = @ \/ inflight.call[d].status = "running"]]]
    /\ lastOp' = [op |-> "race"]
    /\ promoLog' = [k \in Keys |-> {}]
    /\ UNCHANGED <<long, clock, PROMOTE_DOCUMENT_NODES, sweepVars, commitVars,
                   factPc, _seen_entities, askPc, promoCalls>>

RaceTick ==
    /\ clock + TickMs <= MaxRaceTicks * TickMs
    /\ Tick

NextRace ==
    \/ \E c \in Calls : RaceBegin(c)
    \/ \E c \in Calls : RaceStep(c)
    \/ RaceSweep
    \/ RaceTick

\* two promotions of one key and the sweeper, interleaved statement by statement
SpecRace == Init /\ [][NextRace]_vars

(***************************************************************************)
(* Bulk ingest over datasets of other shapes.  ingest.main wipes the store *)
(* and then calls ingest_file once per file; which files the dataset holds *)
(* and in which order their names sort is the input.                       *)
(***************************************************************************)
DatasetFiles ==
    Corpus \o
    << [doc_uuid |-> "d3", title |-> "Doc Three", category |-> "tech",
        paras |-> << [para_uuid |-> "p4", text |-> "text of p4",
                      ents |-> << [text |-> "Apple", label |-> "ORG", ent_uuid |-> "u7"],
                                  [text |-> "Nokia", label |-> "ORG", ent_uuid |-> "u8"] >>] >>],
       [doc_uuid |-> "d4", title |-> "Doc Four", category |-> "food",
        paras |-> << [para_uuid |-> "p5", text |-> "text of p5",
                      ents |-> << [text |-> "Apple", label |-> "PRODUCT", ent_uuid |-> "u9"] >>] >>],
       [doc_uuid |-> "d5", title |-> "Doc Five", category |-> "tech",
        paras |-> << [para_uuid |-> "p6", text |-> "text of p6",
                      ents |-> << [text |-> "Nokia", label |-> "ORG", ent_uuid |-> "u10"],
                                  [text |-> "7", label |-> "CARDINAL", ent_uuid |-> "u11"] >>] >>] >>

\* session.run("MATCH (n) DETACH DELETE n")
InitIngest ==
    /\ long = EmptyStore
    /\ lastOp = [op |-> "wipe", done |-> << >>]
    /\ InitRest(TRUE, FALSE)

\* the next file of the dataset
IngestFile(i) ==
    /\ lastOp.op \in {"wipe", "ingest"}
    /\ i \notin Range(lastOp.done)
    /\ long' = ingest_file(long, DatasetFiles[i])
    /\ lastOp' = [op |-> "ingest", done |-> Append(lastOp.done, i)]
    /\ UNCHANGED <<short, clock, PROMOTE_DOCUMENT_NODES, askVars, sweepVars, commitVars,
                   factPc, promoLog>>

NextIngest == \E i \in DOMAIN DatasetFiles : IngestFile(i)

SpecIngest == InitIngest /\ [][NextIngest]_vars

(***************************************************************************)
(* A promotion that raises part-way and is invoked again.  Every helper of *)
(* promote_entity is its own auto-commit statement, so what the failed     *)
(* call had sent stays in the working set.                                 *)
(***************************************************************************)
RetryKeys == {K1, K2}

RetryTtls == {TickMs, TTL_MS}

\* the longest prefix a failing call has sent
MaxSent == 9

\* promote_entity raises after n of its statements (the read included)
PromoteFails(key, ttl, n) ==
    /\ sweepPc = "idle" /\ commitPc = "idle"
    /\ lastOp.op \notin {"failed", "retried"}
    /\ LET stmts == PromoteStmts(long, key[1], key[2], PROMOTE_DOCUMENT_NODES, clock) IN
         /\ n \in 1..(Len(stmts) - 1)
         /\ short' = RunStmts(short, stmts, _calculate_expiration(clock, ttl), 1, n)
    /\ lastOp' = [op |-> "failed", key |-> key, now |-> clock, sent |-> n, pre |-> short]
    /\ promoLog' = [k \in Keys |-> {}]
    /\ UNCHANGED <<long, clock, PROMOTE_DOCUMENT_NODES, askVars, sweepVars, commitVars, factPc>>

\* time passes before the caller tries again
RetryTick ==
    /\ lastOp.op = "failed"
    /\ clock + TickMs <= MaxTicks * TickMs
    /\ clock' = clock + TickMs
    /\ UNCHANGED <<long, short, lastOp, PROMOTE_DOCUMENT_NODES, askVars, sweepVars, promoLog,
                   commitVars, factPc>>

\* the promotion of the same key is invoked again and returns
PromoteRetry(ttl) ==
    /\ lastOp.op = "failed"
    /\ short' = _promote_entities(long, short, <<lastOp.key>>, ttl, PROMOTE_DOCUMENT_NODES, clock)
    /\ lastOp' = [op |-> "retried", key |-> lastOp.key, ttl |-> ttl, now |-> clock,
                  failedAt |-> lastOp.now, sent |-> lastOp.sent, pre |-> lastOp.pre]
    /\ promoLog' = [k \in Keys |-> {}]
    /\ UNCHANGED <<long, clock, PROMOTE_DOCUMENT_NODES, askVars, sweepVars, commitVars, factPc>>

RetryPromoteInputs == {<<K1>>, <<K2>>} \X {TTL_MS}

\* what happened before the call that fails
BeforeFailure ==
    /\ lastOp.op \notin {"failed", "retried"}
    /\ \/ Tick
       \/ \E inp \in RetryPromoteInputs : Promote(inp[1], inp[2])

NextRetry ==
    \/ BeforeFailure
    \/ \E key \in RetryKeys, ttl \in RetryTtls, n \in 1..MaxSent : PromoteFails(key, ttl, n)
    \/ RetryTick
    \/ \E ttl \in RetryTtls : PromoteRetry(ttl)

SpecRetry == Init /\ [][NextRetry]_vars

\* the commit script run on a working set whose promoted copy has gone stale
NextStale ==
    \/ CommitTick
    \/ Promote(<<K1>>, TickMs)
    \/ CommitBegin
    \/ \E outcome \in CommitOutcomes : CommitDoc(outcome)
    \/ CommitEnd
    \/ CommitExit

SpecStale == InitCommit /\ [][NextStale]_vars

(***************************************************************************)
(* One serving process over time: questions, clock advances, sweeper runs  *)
(* and flushes of the working set, the tracker never cleared.              *)
(***************************************************************************)
\* the entity lists of the questions asked of the long-lived process
ServeQuestions == {<<K1>>, <<K2, K1>>, <<K3>>}

\* cache_benchmark.flush_short_term: MATCH (n) DETACH DELETE n
flush_short_term(st) == EmptyStore

\* the working set is flushed and _seen_entities is left as it is
Flush ==
    /\ sweepPc = "idle" /\ commitPc = "idle"
    /\ short # EmptyStore
    /\ short' = flush_short_term(short)
    /\ lastOp' = [op |-> "flush"]
    /\ promoLog' = [k \in Keys |-> {}]
    /\ UNCHANGED <<long, clock, PROMOTE_DOCUMENT_NODES, askVars, sweepVars, commitVars, factPc>>

NextServe ==
    \/ \E ent_pairs \in ServeQuestions : Ask(ent_pairs, 0)
    \/ Tick
    \/ SweepBegin
    \/ SweepPass
    \/ SweepExit
    \/ Flush

SpecServe == Init /\ [][NextServe]_vars

(***************************************************************************)
(* The review of short-term facts (example/promote_short_term_facts.py),   *)
(* run on the store the facts were inserted into.                          *)
(***************************************************************************)
TWO_DAYS_MS == 2 * 24 * 3600 * 1000

\* documents with a paragraph-level mention whose expiration is set and later than now
list_unexpired_docs(st, now_ms) ==
    {NodeById(st, r.dst).props.doc_uuid
     : r \in {po \in st.rels :
                /\ po.type = "PART_OF"
                /\ NodeById(st, po.src).label = "Paragraph"
                /\ NodeById(st, po.dst).label = "Document"
                /\ \E m \in st.rels :
                      /\ m.type = "MENTIONS" /\ m.dst = po.src
                      /\ NodeById(st, m.src).label = "Entity"
                      /\ HasProp(m, "expiration") /\ m.props.expiration > now_ms}}

\* the document and the paragraphs with a PART_OF edge to it
ReviewNodes(st, doc_uuid) ==
    LET ds == Ids(NodesBy(st, "Document", "doc_uuid", doc_uuid)) IN
    ds \cup {po.src : po \in {r \in st.rels : /\ r.type = "PART_OF" /\ r.dst \in ds
                                               /\ NodeById(st, r.src).label = "Paragraph"}}

\* the edge keeps its expiration whatever is asked
_set_expiration_Keep(st, doc_uuid, new_exp) == st

\* new_exp is {} for None and {v} for the value v
_set_expiration(st, doc_uuid, new_exp) ==
    LET ns == ReviewNodes(st, doc_uuid)
        v == IF new_exp = {} THEN 0 ELSE CHOOSE x \in new_exp : TRUE
    IN [st EXCEPT !.rels =
          {IF r.type = "MENTIONS" /\ r.dst \in ns /\ NodeById(st, r.src).label = "Entity"
           THEN [r EXCEPT !.props = SetProps(@, ("expiration" :> v))]
           ELSE r
           : r \in st.rels}]

promote_to_long_term(st, doc_uuid) == _set_expiration(st, doc_uuid, {})

force_expire(st, doc_uuid, now_ms) == _set_expiration(st, doc_uuid, {now_ms - TWO_DAYS_MS})

RECURSIVE ReviewLoop(_, _, _, _)
\* for d in docs: ask the operator, apply the answer
ReviewLoop(st, listed, choice, now_ms) ==
    IF listed = {} THEN st
    ELSE LET d == CHOOSE x \in listed : TRUE
             s1 == CASE choice[d] = "yes" -> promote_to_long_term(st, d)
                     [] choice[d] = "expire" -> force_expire(st, d, now_ms)
                     [] OTHER -> st
         IN ReviewLoop(s1, listed \ {d}, choice, now_ms)

Answers == {"yes", "expire", "no"}

\* review_short_term with the operator's answer for every listed document
Review ==
    /\ sweepPc = "idle" /\ commitPc = "idle"
    /\ list_unexpired_docs(short, clock) # {}
    /\ \E choice \in [list_unexpired_docs(short, clock) -> Answers] :
         /\ short' = ReviewLoop(short, list_unexpired_docs(short, clock), choice, clock)
         /\ lastOp' = [op |-> "review", now |-> clock, choice |-> choice, pre |-> short]
    /\ promoLog' = [k \in Keys |-> {}]
    /\ UNCHANGED <<long, clock, PROMOTE_DOCUMENT_NODES, askVars, sweepVars, commitVars, factPc>>

\* the paragraph fetch of the review script: the rows of the long-term-only
\* query without the category column
review_fetch_paragraphs(st, entity_pairs, now_ms, top_k) ==
    {[i \in DOMAIN res |-> [text |-> res[i].text, idx |-> res[i].idx, title |-> res[i].title,
                            matchCnt |-> res[i].matchingEntities]]
     : res \in fetch_paragraphs_by_entities(st, entity_pairs, now_ms, top_k)}

NextReview ==
    \/ Tick
    \/ InsertTechFact
    \/ Promote(<<K3>>, TTL_MS)
    \/ Review

SpecReview == Init /\ [][NextReview]_vars

(***************************************************************************)
(* Properties.                                                             *)
(***************************************************************************)
KeyLists == {<<K1>>, <<K2, K3, K1>>, <<K4>>}

\* the times now of the fetches: up to the latest stamp a promotion can write
FetchTimes == {k * TickMs : k \in 0..(MaxCommitTicks + 2)}

Texts(res) == {res[i].text : i \in DOMAIN res}

KeyOf(st, nodeId) ==
    LET e == NodeById(st, nodeId) IN <<e.props.name, e.props.label>>

\* paragraphs with a Mentions edge from an entity of keys whose expiration is
\* unset, 0, or later than now
MentionedVisibly(st, keys, now) ==
    {p \in st.nodes :
        /\ p.label = "Paragraph"
        /\ \E r \in st.rels :
             /\ r.type = "MENTIONS" /\ r.dst = p.id
             /\ NodeById(st, r.src).label = "Entity"
             /\ KeyOf(st, r.src) \in keys
             /\ \/ "expiration" \notin DOMAIN r.props
                \/ r.props.expiration = 0
                \/ r.props.expiration > now}

\* the stores of a state: the working set, and the authoritative store where
\* it is new (it changes in a commit step only)
StoresToFetch ==
    {short} \cup (IF lastOp.op \in {"init", "commit"} THEN {long} ELSE {})

\* C1: for every store the run reaches (working set or authoritative), every
\* key list and every time now, Fetch returns exactly the paragraphs that have
\* at least one Mentions edge from an entity of the list whose expiration is
\* unset, 0 or > now; node expirations do not enter.
C1_FetchVisibility ==
    \A st \in StoresToFetch, kl \in KeyLists, now \in FetchTimes :
        \A res \in fetch_paragraphs(st, kl, now, TOP_K) :
            Texts(res) = {p.props.text : p \in MentionedVisibly(st, Range(kl), now)}

MentionsOf(st, key) ==
    {r \in st.rels : /\ r.type = "MENTIONS"
                     /\ NodeById(st, r.src).label = "Entity"
                     /\ KeyOf(st, r.src) = key}

\* the authoritative store holds a Mentions edge without expiration, whose
\* paragraph Fetch returns, next to permanent (0) ones; the working set holds
\* a live edge and an edge expired but still stored, whose paragraph Fetch
\* leaves out
C1_Witness ==
    /\ \E r \in long.rels :
          /\ r.type = "MENTIONS" /\ ~HasProp(r, "expiration")
          /\ NodeById(long, r.dst).label = "Paragraph"
          /\ \A res \in fetch_paragraphs(long, <<K2, K3, K1>>, clock, TOP_K) :
                NodeById(long, r.dst).props.text \in Texts(res)
    /\ \E r \in long.rels : r.type = "MENTIONS" /\ HasProp(r, "expiration")
                            /\ r.props.expiration = 0
                            /\ NodeById(long, r.dst).label = "Paragraph"
    /\ \E r \in short.rels : r.type = "MENTIONS" /\ r.props.expiration > clock
                             /\ NodeById(short, r.dst).label = "Paragraph"
    /\ \E r \in short.rels :
          /\ r.type = "MENTIONS" /\ r.props.expiration > 0 /\ r.props.expiration <= clock
          /\ NodeById(short, r.dst).label = "Paragraph"
          /\ \A res \in fetch_paragraphs(short, <<K2, K3, K1>>, clock, TOP_K) :
                /\ NodeById(short, r.dst).props.text \notin Texts(res)
                /\ Len(res) >= 1

\* the paragraphs a promotion of key copies: every paragraph of its documents
PromotedTexts(key) ==
    {p.props.text : p \in UNION {rec.paras : rec \in PROMOTION_QUERY(long, key[1], key[2], clock)}}

\* C2: after Promote(key, now, ttl), ttl > 0, with no later promotion touching
\* the sub-graph, Fetch([key]) at the current time t returns the promoted
\* paragraphs while t < now + ttl and the empty list once t >= now + ttl,
\* however many sweeps ran since.
C2_VisibleUntilExpiry ==
    \A k \in Keys :
        \A stamp \in promoLog[k] :
            \A res \in fetch_paragraphs(short, <<k>>, clock, TOP_K) :
                IF clock < stamp
                THEN Texts(res) = PromotedTexts(k) /\ Len(res) > 0
                ELSE res = << >>

\* a sweep has just deleted something; one promoted key is past its deadline
\* with its edges still stored, another is still live
C2_Witness ==
    /\ lastOp.op = "sweep" /\ lastOp.rel_cnt > 0
    /\ \E k \in Keys : /\ \E stamp \in promoLog[k] : clock >= stamp
                       /\ MentionsOf(short, k) # {}
    /\ \E k \in Keys : \E stamp \in promoLog[k] : clock < stamp

NodesWithUuid(st, u) ==
    {n \in st.nodes : \/ n.label = "Entity" /\ n.props.ent_uuid = u
                      \/ n.label = "Document" /\ n.props.doc_uuid = u
                      \/ n.label = "Paragraph" /\ n.props.para_uuid = u}

\* C3: promoting a key again with the same TTL at a later time leaves one
\* Entity node, one node per document and paragraph and one Mentions edge per
\* (entity, target), each stamped t2 + ttl.
C3_RepromoteNoCopies ==
    lastOp.op = "promote" =>
        \A k \in lastOp.again :
            LET stamp == lastOp.now + lastOp.ttl
                uuids == SubgraphUuids(long, k, lastOp.now)
                ents == {e \in short.nodes : e.label = "Entity" /\ KeyOf(short, e.id) = k}
            IN /\ Cardinality(ents) = 1
               /\ \A u \in uuids :
                     /\ Cardinality(NodesWithUuid(short, u)) = 1
                     /\ \A n \in NodesWithUuid(short, u) : n.props.expiration = stamp
               /\ \A e \in ents : \A u \in uuids \ {e.props.ent_uuid} :
                     \A t \in NodesWithUuid(short, u) :
                        /\ Cardinality(RelsBetween(short, "MENTIONS", e.id, t.id)) = 1
                        /\ \A r \in RelsBetween(short, "MENTIONS", e.id, t.id) :
                              r.props.expiration = stamp

\* the second promotion of a key has just run
C3_Witness ==
    /\ lastOp.op = "promote" /\ lastOp.again # {}
    /\ lastOp.now > TickMs
    /\ \A k \in lastOp.again : MentionsOf(short, k) # {}

\* C4: when Promote(key, now, ttl) returns, every node and every edge, Mentions
\* and PartOf, that it wrote or refreshed carries expiration = now + ttl.
C4_AllStamped ==
    (lastOp.op = "promote" /\ lastOp.ttl > 0) =>
        \A k \in FoundKeys(long, lastOp.req, lastOp.now) :
            LET stamp == lastOp.now + lastOp.ttl
                mine == UNION {NodesWithUuid(short, u) : u \in SubgraphUuids(long, k, lastOp.now)}
            IN /\ \A n \in mine : HasProp(n, "expiration") /\ n.props.expiration = stamp
               /\ \A r \in short.rels :
                     (r.src \in Ids(mine) /\ r.dst \in Ids(mine)) =>
                        HasProp(r, "expiration") /\ r.props.expiration = stamp

C6_SweepOnlyExpired ==
    lastOp.op = "sweep" =>
        \A x \in lastOp.rels_deleted \cup lastOp.nodes_deleted :
            /\ HasProp(x, "expiration")
            /\ x.props.expiration # 0
            /\ x.props.expiration < lastOp.now

\* C7: a sweeper run over a store holding N relations with non-zero expiration
\* < now (and nothing permanent), no writer interfering, ends with all N
\* removed, a relations-deleted total of N, and a further pass returning (0, 0).
C7_RunToCompletionCount ==
    (sweepPc = "done" /\ sweepStart.permanent = 0) =>
        /\ total_rels = sweepStart.expired
        /\ ~ \E r \in short.rels : HasProp(r, "expiration") /\ r.props.expiration # 0
                                   /\ r.props.expiration < clock
        /\ \A out \in purge_expired(short, clock) : out.rel_cnt = 0 /\ out.node_cnt = 0

NoExpiration(x) == ~HasProp(x, "expiration") \/ x.props.expiration = 0

\* the working-set document du carries promoted = true
MarkedPromoted(du) ==
    \E d \in NodesBy(short, "Document", "doc_uuid", du) : NodeGet(d, "promoted", FALSE)

\* the authoritative store holds the document du, every paragraph and entity
\* the working set attaches to it, and every Mentions edge between them
FullCopy(du) ==
    /\ NodesBy(long, "Document", "doc_uuid", du) # {}
    /\ \A p \in TransferParas(short, du) :
          NodesBy(long, "Paragraph", "para_uuid", p.props.para_uuid) # {}
    /\ \A r \in TransferMentions(short, du) :
          LET x == NodeById(short, r.dst)
              key == IF x.label = "Paragraph" THEN "para_uuid" ELSE "doc_uuid"
          IN \E e \in NodesBy(long, "Entity", "ent_uuid", NodeById(short, r.src).props.ent_uuid),
                t \in NodesBy(long, x.label, key, x.props[key]) :
                RelsBetween(long, "MENTIONS", e.id, t.id) # {}

\* C8: after the commit of a document, its Document node, its Paragraph
\* nodes, the Entity nodes that mention them and the Mentions edges in the
\* authoritative store have no expiration property, or expiration 0.
C8_CommitStripsExpiration ==
    (lastOp.op = "commit" /\ lastOp.outcome = "ok") =>
        LET du == lastOp.doc
            ms == TransferMentions(long, du)
        IN \A x \in NodesBy(long, "Document", "doc_uuid", du) \cup TransferParas(long, du)
                      \cup {NodeById(long, r.src) : r \in ms} \cup ms :
              NoExpiration(x)

\* C9: whatever the outcome of a document's transaction pair, the working-set
\* document is marked promoted only if its full copy is in the authoritative
\* store, and a pair that did not succeed leaves both stores as they were.
C9_MarkedOnlyIfCommitted ==
    lastOp.op = "commit" =>
        /\ MarkedPromoted(lastOp.doc) => FullCopy(lastOp.doc)
        /\ lastOp.outcome # "ok" =>
              short = lastOp.before.short /\ long = lastOp.before.long

\* C10: when the run of the commit script is over, every document of its
\* batch whose own commit did not fail is committed.
C10_FailureDoesNotAbortBatch ==
    commitPc \in {"done", "aborted"} =>
        \A du \in commitLog.batch \ commitLog.failed :
            MarkedPromoted(du) /\ FullCopy(du)

\* C11: when a run of the commit script has completed, the count it prints is
\* the number of documents it newly marked promoted, all documents of its
\* batch are marked, and a second run over the unchanged working set selects
\* no document.
C11_SecondRunCommitsNothing ==
    commitPc = "done" =>
        /\ promoted = Cardinality(commitLog.batch)
        /\ \A du \in commitLog.batch : MarkedPromoted(du)
        /\ CommitEligible(short, REQUIRE_VALIDATED) = {}

\* a run has completed after committing two documents
C11_Witness ==
    /\ commitPc = "done" /\ promoted = 2
    /\ commitLog.batch = {"d1", "f1"}
    /\ MarkedPromoted("d1") /\ MarkedPromoted("f1")

\* the working-set document nodes of a store that carry validated = true
IsValidated(d) == HasProp(d, "validated") /\ d.props.validated = TRUE

\* C12: with REQUIRE_VALIDATED set, a document is committed only if it was
\* flagged validated = true and not yet marked, and a completed run has
\* committed all of these; without it, a completed run has committed every
\* document not yet marked, whatever its validated flag.
C12_RequireValidated ==
    /\ (lastOp.op = "commit" /\ lastOp.outcome = "ok") =>
          \A d \in NodesBy(lastOp.before.short, "Document", "doc_uuid", lastOp.doc) :
              /\ NodeGet(d, "promoted", FALSE) = FALSE
              /\ REQUIRE_VALIDATED => IsValidated(d)
    /\ commitPc = "done" =>
          \A d \in {n \in short.nodes : n.label = "Document"} :
              (REQUIRE_VALIDATED => IsValidated(d)) => NodeGet(d, "promoted", FALSE)

\* with REQUIRE_VALIDATED set, a completed run has committed the flagged
\* document and left alone one flagged validated = false
C12_Witness ==
    /\ REQUIRE_VALIDATED /\ commitPc = "done" /\ promoted = 1
    /\ \E d \in short.nodes : d.label = "Document" /\ IsValidated(d)
                              /\ NodeGet(d, "promoted", FALSE)
    /\ \E d \in short.nodes : /\ d.label = "Document" /\ HasProp(d, "validated")
                              /\ ~IsValidated(d) /\ ~NodeGet(d, "promoted", FALSE)

\* row a of a result ranks strictly before row b
RanksBefore(a, b) ==
    \/ a.matchingEntities > b.matchingEntities
    \/ a.matchingEntities = b.matchingEntities /\ a.idx < b.idx

\* C13: the list a retrieval returns is ordered by matchingEntities descending,
\* ties by paragraph index ascending, and holds the first topK paragraphs of
\* that order.
C13_FetchOrder ==
    lastOp.op = "fetch" =>
        LET r == lastOp.result
            G == IF Len(lastOp.entity_pairs) = 0 THEN {}
                 ELSE FetchGroups(short, Range(lastOp.entity_pairs), lastOp.now)
        IN  /\ Len(r) = Min(lastOp.top_k, Cardinality(G))
            /\ \A i, j \in DOMAIN r : i < j => ~RanksBefore(r[j], r[i])
            /\ \A g \in G : \/ ResultRow(short, g) \in Range(r)
                            \/ \A i \in DOMAIN r : ~RanksBefore(ResultRow(short, g), r[i])

\* three paragraphs match; the one with two matches comes first, the one with
\* index 0 second, and the one with index 1 is cut by topK = 2
C13_Witness ==
    /\ lastOp.op = "fetch" /\ lastOp.top_k = 2 /\ lastOp.entity_pairs = <<K1, K2, K4>>
    /\ Len(lastOp.result) = 2
    /\ lastOp.result[1].matchingEntities = 2
    /\ lastOp.result[2].matchingEntities = 1 /\ lastOp.result[2].idx = 0
    /\ \E g \in FetchGroups(short, Range(lastOp.entity_pairs), lastOp.now) :
          /\ g.matchingEntities = 1
          /\ ResultRow(short, g).idx = 1
          /\ ResultRow(short, g) \notin Range(lastOp.result)

\* C14: the list a retrieval returns is determined by the store contents, the
\* key set, the time and topK: the query has one possible result.
C14_FetchDeterministic ==
    lastOp.op = "fetch" =>
        fetch_paragraphs(short, lastOp.entity_pairs, lastOp.now, lastOp.top_k)
            = {lastOp.result}

\* the keys of a list that have a visible Mentions edge to the paragraph with
\* the given text
KeysMentioning(st, keys, text, now) ==
    {k \in keys : \E p \in MentionedVisibly(st, {k}, now) : p.props.text = text}

\* C15: matchingEntities of every returned paragraph is the number of distinct
\* keys of the input list that have a visible Mentions edge to it.
C15_MatchCountDistinct ==
    lastOp.op = "fetch" =>
        \A i \in DOMAIN lastOp.result :
            lastOp.result[i].matchingEntities =
                Cardinality(KeysMentioning(short, Range(lastOp.entity_pairs),
                                           lastOp.result[i].text, lastOp.now))

\* C16: a promotion request none of whose keys has a visible Mentions edge in
\* the authoritative store leaves the working set as it was and reports zero
\* promoted.
C16_NothingVisibleNothingCopied ==
    [][\A inp \in PromoteInputs :
          (Promote(inp[1], inp[2]) /\ FoundKeys(long, inp[1], clock) = {})
              => (short' = short /\ lastOp'.promoted = 0)]_vars

\* C17: a key is in _seen_entities only if a promote_entity call for it has
\* returned in this process, and the key whose promotion raised is not in it.
C17_MarkedOnlyAfterReturn ==
    /\ \A k \in _seen_entities : promoCalls[k].returned >= 1
    /\ (lastOp.op = "ask" /\ lastOp.raised) =>
          lastOp.invoked[Len(lastOp.invoked)] \notin _seen_entities

\* the promotion of nokia returned and that of vodafone raised after its
\* entity was written: nokia is marked, vodafone is not
C17_Witness ==
    /\ lastOp.op = "ask" /\ lastOp.raised /\ lastOp.invoked = <<K4, K1>>
    /\ _seen_entities = {K4}
    /\ NodesBy(short, "Entity", "name", "vodafone") # {}

\* C18: within one process promote_entity is called at most once for a key
\* whose promotion returned, within one request and over all of them.
C18_PromotedOncePerProcess ==
    /\ \A k \in Keys : promoCalls[k].returned >= 1 => promoCalls[k].invoked = 1
    /\ lastOp.op = "ask" => \A k \in Keys : Count(lastOp.invoked, k) <= 1

\* vodafone was promoted by an earlier request; a request that names it twice
\* calls promote_entity for no key
C18_Witness ==
    /\ lastOp.op = "ask" /\ lastOp.ent_pairs = <<K1, K1>> /\ lastOp.invoked = << >>
    /\ promoCalls[K1] = [invoked |-> 1, returned |-> 1]
    /\ K1 \in _seen_entities

\* the nodes and Mentions edges of the sub-graph a promotion of RaceKey writes
RaceRecs == PROMOTION_QUERY(long, RaceKey[1], RaceKey[2], TickMs)

RaceEntities == {rec.e.props.ent_uuid : rec \in RaceRecs}

RaceParas == UNION {{p.props.para_uuid : p \in rec.paras} : rec \in RaceRecs}

RaceDocs == {NodeGet(rec.doc, "doc_uuid", "") : rec \in RaceRecs}

RaceNodes(st) ==
    UNION ({NodesBy(st, "Entity", "ent_uuid", u) : u \in RaceEntities}
             \cup {NodesBy(st, "Paragraph", "para_uuid", u) : u \in RaceParas}
             \cup {NodesBy(st, "Document", "doc_uuid", u) : u \in RaceDocs})

RaceMentions(st) ==
    {r \in st.rels : r.type = "MENTIONS" /\ r.src \in Ids(RaceNodes(st))
                     /\ r.dst \in Ids(RaceNodes(st))}

Stamped(x, exp_ts) == HasProp(x, "expiration") /\ x.props.expiration = exp_ts

\* C19: when two promotions of one key with different stamps have both
\* returned, the working set holds one Entity node and one Mentions edge per
\* target, and every node and Mentions edge of the sub-graph carries the stamp
\* of the promotion that wrote last.
C19_ConcurrentPromotionsConverge ==
    ( /\ \A c \in Calls : inflight.call[c].status = "done" /\ clock < inflight.call[c].exp
      /\ inflight.call[1].exp # inflight.call[2].exp )
    => /\ \A u \in RaceEntities : Cardinality(NodesBy(short, "Entity", "ent_uuid", u)) = 1
       /\ \A e \in RaceNodes(short), t \in RaceNodes(short) :
             (e.label = "Entity" /\ t.label # "Entity")
                => Cardinality(RelsBetween(short, "MENTIONS", e.id, t.id)) = 1
       /\ \A x \in RaceNodes(short) \cup RaceMentions(short) :
             Stamped(x, inflight.call[inflight.last].exp)

\* C20: when a promotion that ran next to sweeper transactions only has
\* returned, and the sweep times were below its stamp, the working set holds
\* the entity, every paragraph of its document and a Mentions edge to each,
\* all carrying that stamp.
C20_PromotionSurvivesSweeps ==
    \A c \in Calls :
        ( /\ inflight.call[c].status = "done" /\ inflight.call[c].alone
          /\ inflight.last = c /\ inflight.call[Other(c)].status # "running"
          /\ clock < inflight.call[c].exp )
        => \A u \in RaceEntities :
             \E e \in NodesBy(short, "Entity", "ent_uuid", u) :
                /\ Stamped(e, inflight.call[c].exp)
                /\ \A pu \in RaceParas :
                     \E p \in NodesBy(short, "Paragraph", "para_uuid", pu) :
                        /\ Stamped(p, inflight.call[c].exp)
                        /\ \E m \in RelsBetween(short, "MENTIONS", e.id, p.id) :
                              Stamped(m, inflight.call[c].exp)

\* the second promotion began when the sub-graph of the first had expired, a
\* sweep removed part of it while the promotion was running, and the promotion
\* has returned
C20_Witness ==
    /\ inflight.call[1].status = "done" /\ inflight.call[2].status = "done"
    /\ inflight.call[2].alone /\ inflight.last = 2
    /\ inflight.call[1].exp < inflight.call[2].exp - TTL_MS
    /\ clock < inflight.call[2].exp
    /\ \A x \in RaceNodes(short) \cup RaceMentions(short) : Stamped(x, inflight.call[2].exp)
    /\ inflight.call[2].swept

\* C21: after a promotion with ttl > 0 at time now, every Mentions edge of each
\* promoted entity carries exactly now + ttl, whatever it carried before.
C21_RepromotionOverwrites ==
    (lastOp.op = "promote" /\ lastOp.ttl > 0) =>
        \A k \in FoundKeys(long, lastOp.req, lastOp.now) :
            /\ MentionsOf(short, k) # {}
            /\ \A m \in MentionsOf(short, k) : Stamped(m, lastOp.now + lastOp.ttl)

\* the entity was cached with a later deadline, and the promotion with the
\* shorter TTL left the earlier one
C21_Witness ==
    /\ lastOp.op = "promote" /\ lastOp.ttl = TickMs /\ lastOp.shortened = {K1}
    /\ \A m \in MentionsOf(short, K1) : Stamped(m, lastOp.now + TickMs)

\* C22: after a promotion every node and every edge it wrote carries
\* expiration 0 when ttl = 0 and now + ttl when ttl > 0.
C22_TtlZeroIsPermanent ==
    lastOp.op = "promote" =>
        \A k \in FoundKeys(long, lastOp.req, lastOp.now) :
            LET stamp == IF lastOp.ttl = 0 THEN 0 ELSE lastOp.now + lastOp.ttl
                mine == UNION {NodesWithUuid(short, u) : u \in SubgraphUuids(long, k, lastOp.now)}
            IN /\ \A n \in mine : Stamped(n, stamp)
               /\ \A r \in short.rels :
                     (r.src \in Ids(mine) /\ r.dst \in Ids(mine)) => Stamped(r, stamp)

\* C23: a retrieval called with topK below 1 is turned down before it sends
\* any statement to a store.
C23_InvalidInputRejected ==
    (lastOp.op = "fetch" /\ lastOp.top_k < 1) => lastOp.reads = 0

\* C24: a retrieval called with an empty key list returns the empty list and
\* sends no statement to the store.
C24_EmptyKeysEmptyResult ==
    (lastOp.op = "fetch" /\ Len(lastOp.entity_pairs) = 0) =>
        (lastOp.result = << >> /\ lastOp.reads = 0)

\* the empty key list was looked up in a working set that holds visible
\* Mentions edges
C24_Witness ==
    /\ lastOp.op = "fetch" /\ lastOp.entity_pairs = << >> /\ lastOp.result = << >>
    /\ lastOp.top_k = TOP_K
    /\ \E r \in short.rels : r.type = "MENTIONS" /\ FetchVisible(r, lastOp.now)

\* C25: no step of a sweeper run changes the authoritative store.
C25_SweepLeavesLongAlone ==
    [][(SweepBegin \/ SweepPass \/ SweepExit) => long' = long]_vars

\* a sweeper pass has deleted nodes, and the authoritative store still holds
\* what ingest wrote
C25_Witness ==
    /\ lastOp.op = "sweep" /\ lastOp.nodes_deleted # {} /\ lastOp.rels_deleted # {}
    /\ long = LongInit

\* C26: a promotion changes nothing in the authoritative store, and every node
\* and edge the working set held before it is still there after it.
C26_PromoteDeletesNothing ==
    [][lastOp'.op = "promote" =>
          /\ long' = long
          /\ Ids(short.nodes) \subseteq Ids(short'.nodes)
          /\ Ids(short.rels) \subseteq Ids(short'.rels)]_vars

\* a promotion has copied an entity into a working set that holds an expired
\* edge of another entity, and the edge is still there
C26_Witness ==
    /\ lastOp.op = "promote" /\ FoundKeys(long, lastOp.req, lastOp.now) # {}
    /\ \E r \in short.rels :
          /\ r.type = "MENTIONS" /\ HasProp(r, "expiration")
          /\ r.props.expiration # 0 /\ r.props.expiration < lastOp.now
          /\ KeyOf(short, r.src) \notin Range(lastOp.req)

\* the PART_OF edges that leave paragraph p of store g for a Document node
PartOfEdges(g, p) ==
    {r \in g.rels :
        /\ r.type = "PART_OF" /\ r.src = p.id
        /\ \E d \in g.nodes : d.id = r.dst /\ d.label = "Document"}

\* C27: in both stores every Paragraph node has exactly one outgoing PART_OF
\* edge to a Document node.
C27_ParagraphHasOneDocument ==
    \A g \in {long, short} :
        \A p \in g.nodes :
            p.label = "Paragraph" => Cardinality(PartOfEdges(g, p)) = 1

\* the occurrences ingest_file accepts in the files ingested so far
Occurrences ==
    UNION {UNION {{[name |-> Lower(f.paras[j].ents[k].text),
                    label |-> f.paras[j].ents[k].label,
                    para_uuid |-> f.paras[j].para_uuid, doc_uuid |-> f.doc_uuid]
                   : k \in {x \in DOMAIN f.paras[j].ents :
                              f.paras[j].ents[x].label \in ALLOWED_LABELS}}
                  : j \in DOMAIN f.paras}
           : f \in {DatasetFiles[i] : i \in Range(lastOp.done)}}

\* C28: after ingest the authoritative store holds exactly one Entity node for
\* every (lower-cased name, label) pair that occurs in the ingested files, so
\* occurrences that differ in label are different nodes.
C28_OneEntityPerNameAndLabel ==
    lastOp.op = "ingest" =>
        \A o \in Occurrences :
            Cardinality({e \in long.nodes :
                            /\ e.label = "Entity"
                            /\ e.props.name = o.name
                            /\ e.props.label = o.label}) = 1

\* an edge of store g from an Entity node named name to the node with the given
\* uuid whose expiration is 0
MentionedBy(g, name, key, uuid) ==
    \E m \in g.rels :
        /\ m.type = "MENTIONS" /\ HasProp(m, "expiration") /\ m.props.expiration = 0
        /\ \E e \in g.nodes : e.id = m.src /\ e.label = "Entity" /\ e.props.name = name
        /\ \E t \in g.nodes : t.id = m.dst /\ HasProp(t, key) /\ t.props[key] = uuid

\* C30: for every accepted occurrence of a name in paragraph p of document d,
\* second and later occurrences included, the Entity node of the name has an
\* edge with expiration 0 to p and one to d once the file is ingested.
C30_EveryOccurrenceLinked ==
    lastOp.op = "ingest" =>
        \A o \in Occurrences :
            /\ MentionedBy(long, o.name, "para_uuid", o.para_uuid)
            /\ MentionedBy(long, o.name, "doc_uuid", o.doc_uuid)

\* the Mentions edges of the authoritative store from an entity to a paragraph
\* that carry no expiration property
UnstampedMentions ==
    {m \in long.rels :
        /\ m.type = "MENTIONS" /\ ~HasProp(m, "expiration")
        /\ NodeById(long, m.src).label = "Entity"
        /\ NodeById(long, m.dst).label = "Paragraph"}

\* C29: a Mentions edge of the authoritative store whose expiration is absent
\* is returned at every later time by the cache-aware fetch and by the
\* long-term-only fetch.
C29_UnstampedEdgesAlwaysFetched ==
    \A m \in UnstampedMentions :
        \A now \in {t \in FetchTimes : t >= clock} :
            LET key == <<KeyOf(long, m.src)>>
                text == NodeById(long, m.dst).props.text
            IN /\ \A res \in fetch_paragraphs(long, key, now, TOP_K) : text \in Texts(res)
               /\ \A res \in fetch_paragraphs_by_entities(long, key, now, TOP_K) :
                     text \in Texts(res)

\* the records PROMOTION_QUERY returned to the last promotion
LastRecords ==
    UNION {PROMOTION_QUERY(long, k[1], k[2], lastOp.now)
           : k \in FoundKeys(long, lastOp.req, lastOp.now)}

\* C31: with document promotion off and no document in the working set, a
\* promotion writes no Document node and no Mentions edge to a Document, writes
\* the Entity node, every paragraph of the document and a Mentions edge to each,
\* and a fetch of the request then reports every row as 'Untitled' / 'N/A'.
C31_NoDocumentPromotion ==
    (lastOp.op = "promote" /\ ~PROMOTE_DOCUMENT_NODES) =>
        /\ \A n \in short.nodes : n.label # "Document"
        /\ \A r \in short.rels :
              r.type = "MENTIONS" => NodeById(short, r.dst).label = "Paragraph"
        /\ \A rec \in LastRecords :
              /\ NodesBy(short, "Entity", "ent_uuid", rec.e.props.ent_uuid) # {}
              /\ \A p \in rec.paras :
                    /\ NodesBy(short, "Paragraph", "para_uuid", p.props.para_uuid) # {}
                    /\ \E m \in short.rels :
                          /\ m.type = "MENTIONS"
                          /\ m.src \in Ids(NodesBy(short, "Entity", "ent_uuid",
                                                  rec.e.props.ent_uuid))
                          /\ m.dst \in Ids(NodesBy(short, "Paragraph", "para_uuid",
                                                  p.props.para_uuid))
        /\ \A res \in fetch_paragraphs(short, lastOp.req, lastOp.now, TOP_K) :
              /\ {p.props.text : p \in UNION {rec.paras : rec \in LastRecords}}
                    \subseteq Texts(res)
              /\ \A i \in DOMAIN res :
                    res[i].title = "Untitled" /\ res[i].category = "N/A"

\* a promotion with the flag off has copied an entity and its paragraphs
C31_Witness ==
    /\ lastOp.op = "promote" /\ ~PROMOTE_DOCUMENT_NODES
    /\ LastRecords # {}
    /\ \E n \in short.nodes : n.label = "Paragraph"

\* C32: within one promotion no Mentions edge is written before every
\* paragraph node and every PART_OF edge of that promotion: each Mentions
\* statement a call has sent comes after all its paragraph and PART_OF statements.
C32_MentionsWrittenLast ==
    \A c \in Calls :
        LET me == inflight.call[c] IN
        \A i \in 1..(me.pc - 1) :
            me.stmts[i].op \in {"mentions_doc", "mentions_para"} =>
                \A j \in DOMAIN me.stmts :
                    me.stmts[j].op \in {"paragraph", "part_of"} => j < i

\* the nodes of the working set that the sub-graph of the retried key names
RetriedNodes ==
    UNION {NodesWithUuid(short, u) : u \in SubgraphUuids(long, lastOp.key, lastOp.now)}

ReviewFetchTimes ==
    {t \in FetchTimes : t >= lastOp.now} \cup {lastOp.now + EXPIRY_MS, lastOp.now + TWO_DAYS_MS}

\* the Mentions edges of store st that arrive at the reviewed document or one of
\* its paragraphs
ReviewedEdges(st, doc_uuid) ==
    {r \in st.rels : r.type = "MENTIONS" /\ r.dst \in ReviewNodes(short, doc_uuid)}

BackedByLong(m, now) ==
    \E r \in long.rels :
        /\ r.type = "MENTIONS" /\ PromotionVisible(r, now)
        /\ NodeById(long, r.src).label = "Entity"
        /\ NodeById(long, r.src).props.ent_uuid = NodeById(short, m.src).props.ent_uuid
        /\ NodeById(long, r.dst).label = "Paragraph"
        /\ NodeById(long, r.dst).props.para_uuid = NodeById(short, m.dst).props.para_uuid

\* C35: right after a promotion every Mentions edge entity -> paragraph of the
\* working set has a visible counterpart in the authoritative store, and what a
\* fetch of the request returns from the working set is among what it returns
\* from the authoritative store.
C35_PromotedEdgesBacked ==
    lastOp.op = "promote" =>
        /\ \A m \in short.rels :
              (m.type = "MENTIONS" /\ NodeById(short, m.dst).label = "Paragraph") =>
                  BackedByLong(m, lastOp.now)
        /\ \A rs \in fetch_paragraphs(short, lastOp.req, lastOp.now, TOP_K),
              rl \in fetch_paragraphs(long, lastOp.req, lastOp.now, TOP_K) :
                 Texts(rs) \subseteq Texts(rl)

\* the uuid of node i of store st
UuidOf(st, i) ==
    LET n == NodeById(st, i) IN
    CASE n.label = "Entity" -> n.props.ent_uuid
      [] n.label = "Paragraph" -> n.props.para_uuid
      [] OTHER -> n.props.doc_uuid

\* C36: a commit copies nothing that is invisible in the working set: for a
\* Mentions edge whose positive expiration had passed when its document was
\* committed, the commit has written no edge between the same two nodes of the
\* authoritative store.
C36_CommitOnlyVisible ==
    (lastOp.op = "commit" /\ lastOp.outcome = "ok") =>
        \A m \in lastOp.before.short.rels :
            ( /\ m.type = "MENTIONS" /\ HasProp(m, "expiration")
              /\ m.props.expiration > 0 /\ m.props.expiration < lastOp.now ) =>
                ~\E r \in long.rels \ lastOp.before.long.rels :
                    /\ r.type = "MENTIONS"
                    /\ UuidOf(long, r.src) = UuidOf(lastOp.before.short, m.src)
                    /\ UuidOf(long, r.dst) = UuidOf(lastOp.before.short, m.dst)

\* C37: a sweeper pass removes no Mentions edge that is visible at the sweep
\* time, neither among the edges phase 1 deletes nor among those that go with
\* the nodes phase 2 deletes.
C37_SweepSparesVisible ==
    lastOp.op = "sweep" =>
        \A r \in lastOp.rels_deleted \cup lastOp.rels_detached :
            r.type = "MENTIONS" => ~FetchVisible(r, lastOp.now)

\* the keys of a list with a Mentions edge in the authoritative store that is
\* visible at the given time
VisibleInLong(keys, now) ==
    {k \in keys :
        \E e \in long.nodes, r \in long.rels :
            /\ e.label = "Entity" /\ HasProp(e, "name") /\ HasProp(e, "label")
            /\ e.props.name = k[1] /\ e.props.label = k[2]
            /\ r.type = "MENTIONS" /\ r.src = e.id
            /\ PromotionVisible(r, now)}

\* C38: whenever ask() completes for a question with a key whose Mentions
\* edges are visible in the authoritative store, the retrieval it ends with
\* returns at least one paragraph: the tracker suppresses no promotion that is
\* needed because the cached copy has expired, been swept or been flushed.
C38_AskAlwaysServed ==
    (lastOp.op = "ask" /\ ~lastOp.raised
        /\ VisibleInLong(Range(lastOp.ent_pairs), lastOp.now) # {})
    => lastOp.result # << >>

\* the Mentions and PartOf edges of a store, by type and end points
LinkSet(st) ==
    {<<r.type, r.src, r.dst>> : r \in {x \in st.rels : x.type \in {"MENTIONS", "PART_OF"}}}

\* every edge of store a has an edge of store b between the same nodes that is
\* visible at the given time exactly when it is
SameVisibility(a, b, now) ==
    \A r \in a.rels :
        \E q \in b.rels :
            /\ q.type = r.type /\ q.src = r.src /\ q.dst = r.dst
            /\ PromotionVisible(q, now) = PromotionVisible(r, now)

\* C39: a document's sub-graph promoted from the authoritative store and then
\* committed back leaves the authoritative store with the nodes and node
\* properties, the Mentions and PartOf edges and the visibility of every edge
\* that it had before the promotion.
C39_RoundTripRestoresLong ==
    (lastOp.op = "commit" /\ lastOp.outcome = "ok" /\ lastOp.before.long = LongInit)
    => /\ long.nodes = LongInit.nodes
       /\ LinkSet(long) = LinkSet(LongInit)
       /\ SameVisibility(long, LongInit, lastOp.now)
       /\ SameVisibility(LongInit, long, lastOp.now)
====
